---- MODULE Spec2Model ----
(***************************************************************************)
(* factnet: the KnowledgeGraph orchestrator (knowledge_graph.py), its two  *)
(* storage backends (backends.py) and the detector port (ai_detectors.py). *)
(*                                                                         *)
(* Scheduling is asyncio's: one thread, tasks interleave only where a      *)
(* coroutine really suspends.  InMemoryStorage never suspends, so with it  *)
(* add_fact, add_manual_relationship and every read are single steps, and  *)
(* the worker suspends only in queue.get() and in the detector call.       *)
(* Neo4jStorage suspends in every call (run_in_executor): the call, its    *)
(* transaction in the executor's thread and the caller's resumption are    *)
(* different moments, and add_fact and the worker's read and writes are    *)
(* split there.  close() is a call (the cancellation asked for), the       *)
(* worker's end, and the return once the worker task is done.              *)
(*                                                                         *)
(* Four parts are also studied on their own, each under a specification   *)
(* of its own: InMemoryStorage called directly (StoreSpec), the OpenAI     *)
(* detector's _parse_response (ParseSpec) and its batching loop            *)
(* (BatchSpec), and the synchronous KnowledgeNetwork of                    *)
(* knowledge_network.py (NetSpec).                                         *)
(***************************************************************************)
EXTENDS Integers, Sequences, FiniteSets, TLC

\* ---------------------------------------------------------------- bounds
MaxId == 2          \* fact ids are 1..MaxId
MaxAdds == 2        \* add_fact calls
MaxWrites == 2      \* relationship writes asked for by callers and by the
                    \* unconstrained detector
MaxWaits == 1       \* wait_for_processing() calls
MaxCalls == 3       \* add_fact calls on a store studied on its own
MaxEntries == 2     \* entries of the JSON array the delegate replies with
MaxExisting == 3    \* existing facts handed to the batching detector

\* ---------------------------------------------------------------- values
FactIds == 1..MaxId
UnknownId == MaxId + 1                       \* an id no fact is ever given
NoId == 0                                   \* fact_id = None
EmptyId == -1                               \* fact_id = "" (the empty string)
MetaInputs == {"None", "{k}"}               \* the metadata argument
\* add_fact's (content, metadata) arguments
FactInputs == {<<"c1", "None">>, <<"c2", "{k}">>}
\* add_manual_relationship's (type, confidence in tenths, metadata) arguments
ManualInputs == {<<"supports", 8, "None">>, <<"neutral", 3, "{k}">>,
                 <<"contradicts", 9, "None">>}
Types == {"supports", "contradicts", "neutral"}   \* RelationshipType
Backends == {"memory", "neo4j"}
Detectors == {"none", "stub", "raising", "arbitrary"}

\* `metadata or {}`: None and the empty dict both become the empty dict.
\* `if fact_id:` and `fact_id or ...`: None and the empty string are falsy.
Falsy(id) == id \in {NoId, EmptyId}

OrEmpty(m) == IF m \in {"None", "{}"} THEN "{}" ELSE m

\* `metadata if metadata else None`: what the Neo4j adapter sends.
OrNone(m) == IF m \in {"None", "{}"} THEN "None" ELSE m

\* str(uuid.uuid4()) as Fact.__post_init__ makes it: an id no caller passes.
\* (add_fact fills a missing fact_id in before it builds the Fact, from the
\* ids not in use; see FreshIds.)
GeneratedId == MaxId + 2

\* The dataclass Fact; __post_init__ replaces a falsy id by a generated one.
Fact(id, content, metadata) ==
    [id |-> IF Falsy(id) THEN GeneratedId ELSE id,
     content |-> content, metadata |-> metadata]

NoFact == [id |-> NoId, content |-> "", metadata |-> "None"]   \* Optional[Fact] = None

RelationshipDefaultMetadata == "{}"         \* field(default_factory=dict)

Relationship(s, t, type, confidence, metadata) ==
    [source_id |-> s, target_id |-> t, type |-> type,
     confidence |-> confidence, metadata |-> metadata]

SeqToSet(s) == {s[i] : i \in DOMAIN s}

\* ------------------------------------------------------- InMemoryStorage
\* Mutant: setdefault, a present id keeps its old fact.
InMemoryAddFactKeepFirst(fs, fact) ==
    IF \E i \in DOMAIN fs : fs[i].id = fact.id THEN fs ELSE Append(fs, fact)

\* Mutant: a list of facts, appended to whatever the id.
InMemoryAddFactAppend(fs, fact) == Append(fs, fact)

\* Mutant: a present id is deleted and inserted again, at the end.
InMemoryAddFactMoveToEnd(fs, fact) ==
    Append(SelectSeq(fs, LAMBDA f : f.id # fact.id), fact)

\* self.facts is a dict: assignment to a present key keeps its position.
InMemoryAddFact(fs, fact) ==
    IF \E i \in DOMAIN fs : fs[i].id = fact.id
    THEN [i \in DOMAIN fs |-> IF fs[i].id = fact.id THEN fact ELSE fs[i]]
    ELSE Append(fs, fact)

InMemoryGetFact(fs, id) ==
    IF \E i \in DOMAIN fs : fs[i].id = id
    THEN fs[CHOOSE i \in DOMAIN fs : fs[i].id = id]
    ELSE NoFact

InMemoryGetAllFacts(fs) == fs

SamePair(r, rel) == r.source_id = rel.source_id /\ r.target_id = rel.target_id

\* Mutant: the filter drops every edge of the source, not only the pair's.
InMemoryAddRelationshipClearSource(rs, rel) ==
    Append(SelectSeq(rs, LAMBDA r : r.source_id # rel.source_id), rel)

\* Mutant: append without removing the pair's old edge.
InMemoryAddRelationshipAppend(rs, rel) == Append(rs, rel)

InMemoryAddRelationship(rs, rel) ==
    Append(SelectSeq(rs, LAMBDA r : ~SamePair(r, rel)), rel)

InMemoryGetRelationships(rs, fid) ==
    IF ~Falsy(fid)
    THEN SelectSeq(rs, LAMBDA r : r.source_id = fid \/ r.target_id = fid)
    ELSE rs

\* ---------------------------------------------------------- Neo4jStorage
\* Nodes and edges as the database holds them (metadata None when empty).
Neo4jNode(fact) == Fact(fact.id, fact.content, OrNone(fact.metadata))

\* A property value is a primitive or an array of primitives: the server
\* refuses a map, so only the None sent for empty metadata is accepted.
Neo4jPropertyRefused(m) == OrNone(m) # "None"

\* CREATE under the uniqueness constraint on Fact.id, with the metadata as
\* a property.
Neo4jAddFactRaises(fs, fact) ==
    \/ \E i \in DOMAIN fs : fs[i].id = fact.id
    \/ Neo4jPropertyRefused(fact.metadata)

Neo4jAddFact(fs, fact) == Append(fs, Neo4jNode(fact))

Neo4jFromNode(n) == Fact(n.id, n.content, OrEmpty(n.metadata))

Neo4jGetFact(fs, id) ==
    IF \E i \in DOMAIN fs : fs[i].id = id
    THEN Neo4jFromNode(fs[CHOOSE i \in DOMAIN fs : fs[i].id = id])
    ELSE NoFact

Neo4jGetAllFacts(fs) == [i \in DOMAIN fs |-> Neo4jFromNode(fs[i])]

\* MATCH both endpoints, MERGE on (source, target, type), SET the rest.
SameEdge(r, rel) == SamePair(r, rel) /\ r.type = rel.type

\* SET r.metadata = $metadata runs once per matched row: with both
\* endpoints stored a map is refused and the transaction rolled back; with an
\* endpoint missing there is no row and nothing is evaluated.
Neo4jAddRelationshipRaises(fs, rel) ==
    LET ids == {fs[i].id : i \in DOMAIN fs}
    IN  /\ rel.source_id \in ids /\ rel.target_id \in ids
        /\ Neo4jPropertyRefused(rel.metadata)

\* Mutant: MERGE without the MATCH of the endpoints.
Neo4jAddRelationshipUnmatched(fs, rs, rel) ==
    LET stored == [rel EXCEPT !.metadata = OrNone(rel.metadata)]
    IN  IF Neo4jPropertyRefused(rel.metadata) THEN rs
        ELSE IF \E i \in DOMAIN rs : SameEdge(rs[i], rel)
        THEN [i \in DOMAIN rs |->
                 IF SameEdge(rs[i], rel) THEN stored ELSE rs[i]]
        ELSE Append(rs, stored)

\* What the transaction leaves (nothing new when it matched no row or was
\* rolled back).
Neo4jAddRelationship(fs, rs, rel) ==
    LET stored == [rel EXCEPT !.metadata = OrNone(rel.metadata)]
        ids == {fs[i].id : i \in DOMAIN fs}
    IN  IF rel.source_id \notin ids \/ rel.target_id \notin ids
        THEN rs
        ELSE IF Neo4jAddRelationshipRaises(fs, rel)
        THEN rs
        ELSE IF \E i \in DOMAIN rs : SameEdge(rs[i], rel)
             THEN [i \in DOMAIN rs |->
                      IF SameEdge(rs[i], rel) THEN stored ELSE rs[i]]
             ELSE Append(rs, stored)

Neo4jFromEdge(e) == [e EXCEPT !.metadata = OrEmpty(e.metadata)]

Neo4jGetRelationships(rs, fid) ==
    LET all == [i \in DOMAIN rs |-> Neo4jFromEdge(rs[i])]
    IN  IF ~Falsy(fid)
        THEN SelectSeq(all, LAMBDA r : r.source_id = fid \/ r.target_id = fid)
        ELSE all

\* ---------------------------------------------------- FactStorage (port)
StorageAddFactRaises(b, fs, fact) ==
    IF b = "memory" THEN FALSE ELSE Neo4jAddFactRaises(fs, fact)

\* Mutant: the fact is enqueued without having been stored.
StorageAddFactDropped(b, fs, fact) == fs

StorageAddFact(b, fs, fact) ==
    IF b = "memory" THEN InMemoryAddFact(fs, fact) ELSE Neo4jAddFact(fs, fact)

StorageGetFact(b, fs, id) ==
    IF b = "memory" THEN InMemoryGetFact(fs, id) ELSE Neo4jGetFact(fs, id)

StorageGetAllFacts(b, fs) ==
    IF b = "memory" THEN InMemoryGetAllFacts(fs) ELSE Neo4jGetAllFacts(fs)

\* Mutant: every backend refuses an edge with an endpoint that is not stored.
StorageAddRelationshipChecked(b, fs, rs, rel) ==
    LET ids == {fs[i].id : i \in DOMAIN fs}
    IN  IF rel.source_id \notin ids \/ rel.target_id \notin ids THEN rs
        ELSE IF b = "memory" THEN InMemoryAddRelationship(rs, rel)
        ELSE Neo4jAddRelationship(fs, rs, rel)

StorageAddRelationship(b, fs, rs, rel) ==
    IF b = "memory" THEN InMemoryAddRelationship(rs, rel)
    ELSE Neo4jAddRelationship(fs, rs, rel)

StorageAddRelationshipRaises(b, fs, rel) ==
    IF b = "memory" THEN FALSE ELSE Neo4jAddRelationshipRaises(fs, rel)

StorageGetRelationships(b, rs, fid) ==
    IF b = "memory" THEN InMemoryGetRelationships(rs, fid)
    ELSE Neo4jGetRelationships(rs, fid)

\* update_relationship builds a Relationship with the default metadata.
UpdateRelationshipArg(s, t, type, confidence) ==
    Relationship(s, t, type, confidence, RelationshipDefaultMetadata)

StorageUpdateRelationship(b, fs, rs, s, t, type, confidence) ==
    StorageAddRelationship(b, fs, rs, UpdateRelationshipArg(s, t, type, confidence))

\* ------------------------------------------------- KnowledgeGraph reads
NoType == "None"                            \* relationship_type = None

GetFact(b, fs, id) == StorageGetFact(b, fs, id)

GetAllFacts(b, fs) == StorageGetAllFacts(b, fs)

GetRelationships(b, rs, fid, type) ==
    LET found == StorageGetRelationships(b, rs, fid)
    IN  IF type # NoType THEN SelectSeq(found, LAMBDA r : r.type = type)
        ELSE found

\* Mutant: the loop without `if rel.target_id == fact_id`.
RelatedFactsEitherEnd(b, fs, rs, fid, type) ==
    LET found == GetRelationships(b, rs, fid, type)
        got == [i \in DOMAIN found |-> GetFact(b, fs, found[i].source_id)]
    IN  SelectSeq(got, LAMBDA f : f # NoFact)

\* Mutant: the loop without `if fact:`.
RelatedFactsUnresolved(b, fs, rs, fid, type) ==
    LET found == GetRelationships(b, rs, fid, type)
        into == SelectSeq(found, LAMBDA r : r.target_id = fid)
    IN  [i \in DOMAIN into |-> GetFact(b, fs, into[i].source_id)]

\* The loop shared by get_supporting_facts and get_contradicting_facts.
RelatedFacts(b, fs, rs, fid, type) ==
    LET found == GetRelationships(b, rs, fid, type)
        into == SelectSeq(found, LAMBDA r : r.target_id = fid)
        got == [i \in DOMAIN into |-> GetFact(b, fs, into[i].source_id)]
    IN  SelectSeq(got, LAMBDA f : f # NoFact)

GetSupportingFacts(b, fs, rs, fid) == RelatedFacts(b, fs, rs, fid, "supports")

GetContradictingFacts(b, fs, rs, fid) ==
    RelatedFacts(b, fs, rs, fid, "contradicts")

GetNetworkStats(b, fs, rs) ==
    LET fall == GetAllFacts(b, fs)
        rall == GetRelationships(b, rs, NoId, NoType)
        Count(t) == Len(SelectSeq(rall, LAMBDA r : r.type = t))
    IN  [total_facts |-> Len(fall),
         total_relationships |-> Len(rall),
         support_relationships |-> Count("supports"),
         contradiction_relationships |-> Count("contradicts"),
         neutral_relationships |-> Count("neutral")]

\* ------------------------------------------------------------- detectors
Triple(t, type, confidence) ==
    [target_id |-> t, type |-> type, confidence |-> confidence]

\* What the unconstrained detector may return: triples about any id, a
\* fact's or not, taken here with the one type and confidence.
Triples == {Triple(t, "supports", 5) : t \in FactIds \cup {UnknownId}}

SeqsUpTo(S, n) == UNION {[1..k -> S] : k \in 0..n}

\* The results a detector call may return (a raising call returns none).
\* "stub": (id, SUPPORTS, 0.5) for every existing fact it is given;
\* "arbitrary": any function wrapped by CustomAIDetector.
DetectorResults(kind, existing, budget) ==
    CASE kind = "stub" ->
           {[i \in DOMAIN existing |-> Triple(existing[i].id, "supports", 5)]}
      [] kind = "arbitrary" -> SeqsUpTo(Triples, budget)
      [] OTHER -> {}

DetectorMayRaise(kind) == kind \in {"raising", "arbitrary"}

\* ------------------------------- OpenAIRelationshipDetector._parse_response
JsonNull == "<null>"                        \* the JSON value null
Missing == "<missing>"                      \* the key is not in the object

\* JSON text: an array of objects, a non-empty object, a number of three
\* digits (404), or text that json.loads refuses.
NotJson == [kind |-> "invalid", entries |-> <<>>]

JsonObject == [kind |-> "object", entries |-> <<>>]

JsonNumber == [kind |-> "number", entries |-> <<>>]

JsonArray(entries) == [kind |-> "array", entries |-> entries]

\* A "fact_id" that is a JSON array or object: a list or a dict, which
\* cannot be hashed.
UnhashableId == -2

\* One object of the array: its "fact_id" (NoId: absent or null), its
\* "relationship" and its "confidence" as they are written in the JSON.
Entry(fact_id, relationship, confidence) ==
    [fact_id |-> fact_id, relationship |-> relationship,
     confidence |-> confidence]

RelationshipStrings ==
    {"supports", "Contradicts", "NEUTRAL", "related", Missing, JsonNull}

\* Numbers 0.3 and 0.4, the strings "0.9" and "high", no key, null.
ConfidenceValues == {"0.3", "0.4", "str 0.9", "str high", Missing, JsonNull}

Entries ==
    {Entry(id, r, c) : id \in FactIds \cup {NoId, UnhashableId},
                       r \in RelationshipStrings, c \in ConfidenceValues}

Fence == "fence"                            \* three backticks
FenceJson == "fence json"                   \* three backticks and json
Trailer == "three characters"               \* three characters, no fence: " ok"

\* The reply after strip(): how it starts, the text `body` that follows,
\* and what comes after that text (nothing, a closing fence, or three other
\* characters).
Responses ==
    {[open |-> o, close |-> c, body |-> b] :
        o \in {"", FenceJson, Fence}, c \in {"", Fence, Trailer},
        b \in {NotJson, JsonObject, JsonNumber}
               \cup {JsonArray(es) : es \in SeqsUpTo(Entries, MaxEntries)}}

NoResponse == [open |-> "", close |-> "", body |-> NotJson]

\* The existing_facts of a request: facts with distinct ids.
Batches ==
    {b \in SeqsUpTo({Fact(id, "c1", "{}") : id \in FactIds}, MaxId) :
        b # <<>> /\ \A i, j \in DOMAIN b : i < j => b[i].id < b[j].id}

\* text[:-3] of a text with nothing after it: an array, an object or a
\* number of three digits that has lost its last three characters is no JSON.
DropLastThree(body) == NotJson

\* response[7:-3] and response[3:-3]: after an opening fence the slice
\* drops the last three characters whatever they are, the closing fence,
\* three other characters, or the end of the text itself; without an
\* opening fence nothing is dropped, and text followed by anything is no
\* JSON.
Unfence(r) ==
    IF r.open # ""
    THEN (IF r.close # "" THEN r.body ELSE DropLastThree(r.body))
    ELSE (IF r.close = "" THEN r.body ELSE NotJson)

\* dict.get(key, default)
GetOr(value, default) == IF value = Missing THEN default ELSE value

\* str.lower()
Lower(str) ==
    CASE str = "Contradicts" -> "contradicts"
      [] str = "NEUTRAL" -> "neutral"
      [] OTHER -> str

\* float(), in tenths: what it raises, and its value when it raises nothing.
FloatRaises(c) ==
    CASE c = "str high" -> "ValueError"
      [] c = JsonNull -> "TypeError"
      [] OTHER -> "none"

Float(c) ==
    CASE c = "0.3" -> 3
      [] c = "0.4" -> 4
      [] c = "str 0.9" -> 9
      [] OTHER -> 0                         \* "0.0", the default

Threshold == 3                              \* 0.3

\* Mutant: `confidence >= 0.3`.
AtLeastThreshold(confidence) == confidence >= Threshold

\* `if confidence > 0.3`
AboveThreshold(confidence) == confidence > Threshold

\* `fact_id not in existing_fact_ids`: the test on a set hashes fact_id, and
\* raises TypeError for a list or a dict.
MembershipRaises(fact_id) == fact_id = UnhashableId

\* The loop over relationships_data.  AttributeError and TypeError leave
\* _parse_response; ValueError is caught and an empty list returned.
RECURSIVE ParseEntries(_, _, _)
ParseEntries(entries, existing_fact_ids, relationships) ==
    IF entries = <<>> THEN [error |-> "none", relationships |-> relationships]
    ELSE LET rel_data == Head(entries)
             fact_id == rel_data.fact_id
             raw == GetOr(rel_data.confidence, "0.0")
         IN  IF rel_data.relationship = JsonNull
             THEN [error |-> "AttributeError", relationships |-> <<>>]
             ELSE IF FloatRaises(raw) = "ValueError"
             THEN [error |-> "none", relationships |-> <<>>]
             ELSE IF FloatRaises(raw) = "TypeError"
             THEN [error |-> "TypeError", relationships |-> <<>>]
             ELSE IF MembershipRaises(fact_id)
             THEN [error |-> "TypeError", relationships |-> <<>>]
             ELSE LET relationship_str ==
                          Lower(GetOr(rel_data.relationship, ""))
                      confidence == Float(raw)
                      keep == /\ fact_id \in existing_fact_ids
                              /\ relationship_str \in Types
                              /\ AboveThreshold(confidence)
                  IN  ParseEntries(Tail(entries), existing_fact_ids,
                          IF keep
                          THEN Append(relationships,
                                   Triple(fact_id, relationship_str, confidence))
                          ELSE relationships)

\* _parse_response(response, existing_facts): json.loads fails on text that
\* is no JSON (caught, empty list); iterating an object gives its keys,
\* strings, which have no get(); a number cannot be iterated.
ParseResponse(r, existing) ==
    LET text == Unfence(r)
        existing_fact_ids == {existing[i].id : i \in DOMAIN existing}
    IN  CASE text.kind = "invalid" -> [error |-> "none", relationships |-> <<>>]
          [] text.kind = "object" ->
               [error |-> "AttributeError", relationships |-> <<>>]
          [] text.kind = "number" ->
               [error |-> "TypeError", relationships |-> <<>>]
          [] OTHER -> ParseEntries(text.entries, existing_fact_ids, <<>>)

\* ---------------------- OpenAIRelationshipDetector.detect_relationships
\* The existing_facts argument: facts with distinct ids, in any order.
ExistingLists ==
    {l \in SeqsUpTo({Fact(id, "c1", "{}") : id \in 1..MaxExisting}, MaxExisting) :
        \A i, j \in DOMAIN l : i # j => l[i].id # l[j].id}

\* What a request can come to: it fails (network, service), or the delegate
\* replies; the replies taken here are an object and the arrays of at most
\* one entry "supports, 0.4" about any fact.
RequestOutcomes ==
    {[failed |-> TRUE, reply |-> NoResponse]}
    \cup {[failed |-> FALSE, reply |-> [open |-> "", close |-> "", body |-> b]] :
            b \in {JsonObject}
                   \cup {JsonArray(es) :
                           es \in SeqsUpTo({Entry(id, "supports", "0.4") :
                                               id \in 1..MaxExisting}, 1)}}

\* Mutant: existing_facts[:i + n], the start of the slice forgotten.
SliceFromStart(list, i, n) ==
    SubSeq(list, 1, IF i + n < Len(list) THEN i + n ELSE Len(list))

\* list[i:i + n]
Slice(list, i, n) ==
    SubSeq(list, i + 1, IF i + n < Len(list) THEN i + n ELSE Len(list))

\* _process_batch: `except Exception` turns a failed request, and whatever
\* _parse_response raises, into an empty list.
ProcessBatch(chunk, outcome) ==
    IF outcome.failed THEN <<>>
    ELSE LET p == ParseResponse(outcome.reply, chunk)
         IN  IF p.error = "none" THEN p.relationships ELSE <<>>

\* ----------------------------------------------------------------- state
VARIABLES
    backend,        \* which FactStorage the graph was built with
    detector,       \* which detector, "none" when ai_detector is None
    facts,          \* storage: the facts, in insertion order
    relationships,  \* storage: the edges, in list / creation order
    queue,          \* _processing_queue: facts put and not yet got
    unfinished,     \* _processing_queue._unfinished_tasks
    workerPc,       \* where _process_relationships is suspended
    all_facts,      \* the worker's get_all_facts() result, not yet delivered
    todo,           \* triples of the round in flight not yet written
    wait,           \* the wait_for_processing() call
    closePc,        \* where the close() call is
    closed,         \* close() has closed the storage and returned
    adding,         \* facts stored by add_fact calls that have not resumed
    orphan,         \* the write a pool thread still runs for the ended worker
    lastAdded,      \* the Fact the latest add_fact returned
    nAdds, nWaits,  \* calls made so far
    puts, dones,    \* queue.put and queue.task_done calls so far
    enqueued,       \* the facts add_fact has put on the queue, in call order
    rounds,         \* one record per fact the worker has dequeued: the
                    \* fact, existing_facts, whether the detector was
                    \* called, how the round ended, what the detector returned
    writes          \* every add_relationship / update_relationship call

\* The components studied on their own (further specifications below): the
\* in-memory store called directly, the OpenAI detector's parser and its
\* batching loop, and the synchronous KnowledgeNetwork.
VARIABLES
    added,          \* InMemoryStorage: the facts passed to add_fact, in call order
    held,           \* InMemoryStorage: the list a get_all_facts() call returned
    response,       \* _parse_response: the delegate's reply
    batch,          \* _parse_response: the existing_facts it was asked about
    parsed,         \* _parse_response: what the call returned or raised
    existing,       \* detect_relationships: its existing_facts argument
    max_facts_per_request,
    detectPc,       \* detect_relationships: where the call is
    offset,         \* detect_relationships: the loop's i
    requests,       \* detect_relationships: the _process_batch calls so far
    detected,       \* detect_relationships: its `relationships` list
    relationship_detector,  \* KnowledgeNetwork._relationship_detector
    lastCall        \* KnowledgeNetwork: the latest call and how it ended

storeVars == <<added, held>>

parseVars == <<response, batch, parsed>>

batchVars == <<existing, max_facts_per_request, detectPc, offset, requests,
               detected>>

netVars == <<relationship_detector, lastCall>>

aux == <<storeVars, parseVars, batchVars, netVars>>

\* The orchestrator's own state, all but `facts` and `relationships`.
graph == <<backend, detector, queue, unfinished, workerPc, all_facts, todo,
           wait, closePc, closed, adding, orphan, lastAdded, nAdds, nWaits, puts,
           dones, enqueued, rounds, writes>>

vars == <<backend, detector, facts, relationships, queue, unfinished,
          workerPc, all_facts, todo, wait, closePc, closed, adding, orphan,
          lastAdded, nAdds, nWaits, puts, dones, enqueued, rounds, writes,
          added, held, response, batch, parsed, existing,
          max_facts_per_request, detectPc, offset, requests, detected,
          relationship_detector, lastCall>>

\* pc: where the call is; suspended: join() found items outstanding and
\* waited; the other fields record the counters when the call was made and
\* when it returned.
NoWait == [pc |-> "none", suspended |-> FALSE, putAtCall |-> 0,
           putAtReturn |-> 0, doneAtReturn |-> 0, unfinishedAtReturn |-> 0]

NoList == [calls |-> -1, list |-> <<>>]      \* get_all_facts() not called yet

NotParsed == [error |-> "not called", relationships |-> <<>>]

\* The components studied on their own, each before its first call.
StoreIdle == added = <<>> /\ held = NoList

ParseIdle == response = NoResponse /\ batch = <<>> /\ parsed = NotParsed

BatchIdle ==
    /\ existing = <<>>
    /\ max_facts_per_request = 1
    /\ detectPc = "not called"
    /\ offset = 0
    /\ requests = <<>>
    /\ detected = <<>>

NoCall == [op |-> "none", error |-> "none", source |-> NoId, target |-> NoId,
           result |-> <<>>]

NetIdle == relationship_detector = "none" /\ lastCall = NoCall

AuxIdle == StoreIdle /\ ParseIdle /\ BatchIdle /\ NetIdle

\* What __init__ leaves: nothing stored or queued, the worker at queue.get().
Constructed ==
    /\ facts = <<>>
    /\ relationships = <<>>
    /\ queue = <<>>
    /\ unfinished = 0
    /\ workerPc = "idle"
    /\ all_facts = <<>>
    /\ todo = <<>>
    /\ wait = NoWait
    /\ closePc = "not called"
    /\ closed = FALSE
    /\ adding = {}
    /\ orphan = <<>>
    /\ lastAdded = NoFact
    /\ nAdds = 0 /\ nWaits = 0
    /\ puts = 0 /\ dones = 0
    /\ enqueued = <<>>
    /\ rounds = <<>>
    /\ writes = <<>>

Init ==
    /\ backend \in Backends
    /\ detector \in Detectors
    /\ Constructed
    /\ AuxIdle

\* The orchestrator is not in use.
Unused == backend = "memory" /\ detector = "none" /\ Constructed

\* task.cancel() has been called and the CancelledError has not yet been
\* thrown into the worker.
CancelRequested == closePc = "cancel sent"

\* The triples of the rounds so far that a failed write left unwritten.
RECURSIVE DroppedTriples(_)
DroppedTriples(n) ==
    IF n = 0 THEN 0
    ELSE DroppedTriples(n - 1) +
         (IF rounds[n].outcome = "storage_failed"
          THEN Len(rounds[n].result) -
               Cardinality({j \in DOMAIN writes :
                               writes[j].by = "worker" /\ writes[j].round = n})
          ELSE 0)

\* What is left of the run's write budget.
WriteBudget ==
    MaxWrites - (Len(writes) + Len(todo) + Len(orphan)
                 + DroppedTriples(Len(rounds)))

\* uuid4: an id no call has used.
FreshIds ==
    FactIds \ ({facts[i].id : i \in DOMAIN facts}
               \cup {writes[i].rel.source_id : i \in DOMAIN writes}
               \cup {writes[i].rel.target_id : i \in DOMAIN writes})

\* `if self.ai_detector:` in add_fact and in the worker.
DetectorConfiguredAlways(kind) == TRUE       \* Mutant: the test is dropped.

DetectorConfigured(kind) == kind # "none"

\* Mutant: a LIFO queue, put() places the item where get() takes it.
QueuePutFront(q, item) == <<item>> \o q

\* asyncio.Queue: put() appends at the tail, get() takes the head.
QueuePut(q, item) == Append(q, item)

QueueGet(q) == Head(q)

\* queue.task_done(): the count drops, and at zero the join()ers are woken.
TaskDone(u) == u - 1

\* Mutant: every task_done() wakes join(), whatever is still outstanding.
WakeOnEveryTaskDone(w, u) ==
    IF w.pc = "waiting" THEN [w EXCEPT !.pc = "woken"] ELSE w

WakeOnDrain(w, u) ==
    IF u = 0 /\ w.pc = "waiting" THEN [w EXCEPT !.pc = "woken"] ELSE w

\* The worker's writes of a round: one update_relationship per triple, in
\* the order the detector returned them.
RECURSIVE ApplyTriples(_, _, _, _, _)
ApplyTriples(b, fs, rs, source, triples) ==
    IF triples = <<>> THEN rs
    ELSE ApplyTriples(b, fs,
             StorageUpdateRelationship(b, fs, rs, source, Head(triples).target_id,
                 Head(triples).type, Head(triples).confidence),
             source, Tail(triples))

\* A record of `writes`: who called, in which round (0: a caller), with
\* which Relationship, and whether the storage raised.
Write(by, round, rel, raised) ==
    [by |-> by, round |-> round, rel |-> rel, raised |-> raised]

WorkerWrites(round, source, triples) ==
    [i \in DOMAIN triples |->
        Write("worker", round,
              UpdateRelationshipArg(source, triples[i].target_id,
                  triples[i].type, triples[i].confidence),
              FALSE)]

InFlight == rounds[Len(rounds)]             \* new_fact and existing_facts

SetOutcome(rs, outcome, result) ==
    [rs EXCEPT ![Len(rs)].outcome = outcome, ![Len(rs)].result = result]

\* Mutant: every storage call suspends, whatever the backend.
StorageSuspendsAlways(b) == TRUE

\* Neo4jStorage awaits run_in_executor in every call: the transaction runs
\* in a thread and the caller resumes on a later turn of the event loop.
\* The coroutines of InMemoryStorage hold no await and run to their end when
\* awaited.
StorageSuspends(b) == b = "neo4j"

\* --------------------------------------------------------------- callers
\* KnowledgeGraph.add_fact(content, fact_id, metadata) up to its first
\* suspension.  With InMemoryStorage that is the whole call.  With
\* Neo4jStorage the step is the CREATE transaction: when it commits the call
\* is still suspended in run_in_executor (the fact stored, nothing enqueued)
\* and resumes in AddFactReturn; when it fails nothing was changed and the
\* call raises.
AddFact(fid, content, meta) ==
    /\ nAdds < MaxAdds
    /\ \E id \in (IF Falsy(fid) THEN FreshIds ELSE {fid}) :
        LET fact == Fact(id, content, OrEmpty(meta))
            raises == StorageAddFactRaises(backend, facts, fact)
            suspends == StorageSuspends(backend)
            returns == ~raises /\ ~suspends
            enqueue == returns /\ DetectorConfigured(detector)
        IN  /\ facts' = IF raises THEN facts
                        ELSE StorageAddFact(backend, facts, fact)
            /\ adding' = IF ~raises /\ suspends THEN adding \cup {fact}
                         ELSE adding
            /\ queue' = IF enqueue THEN QueuePut(queue, fact) ELSE queue
            /\ enqueued' = IF enqueue THEN Append(enqueued, fact) ELSE enqueued
            /\ unfinished' = IF enqueue THEN unfinished + 1 ELSE unfinished
            /\ puts' = IF enqueue THEN puts + 1 ELSE puts
            /\ lastAdded' = IF raises THEN NoFact
                            ELSE IF returns THEN fact ELSE lastAdded
    /\ nAdds' = nAdds + 1
    /\ UNCHANGED <<aux, orphan, backend, detector, relationships, workerPc, all_facts,
                   todo, wait, closePc, closed, nWaits, dones, rounds, writes>>

\* add_fact resumes after `await self.storage.add_fact(fact)`: queue.put()
\* when a detector is configured, then `return fact`.
AddFactReturn ==
    /\ \E fact \in adding :
        LET enqueue == DetectorConfigured(detector)
        IN  /\ adding' = adding \ {fact}
            /\ queue' = IF enqueue THEN QueuePut(queue, fact) ELSE queue
            /\ enqueued' = IF enqueue THEN Append(enqueued, fact) ELSE enqueued
            /\ unfinished' = IF enqueue THEN unfinished + 1 ELSE unfinished
            /\ puts' = IF enqueue THEN puts + 1 ELSE puts
            /\ lastAdded' = fact
    /\ UNCHANGED <<aux, orphan, backend, detector, facts, relationships, workerPc,
                   all_facts, todo, wait, closePc, closed, nAdds, nWaits,
                   dones, rounds, writes>>

\* KnowledgeGraph.add_manual_relationship(source, target, type, confidence,
\* metadata), taken at its storage write; what follows the write changes
\* nothing (it returns the Relationship, or raises what the storage raised).
AddManualRelationship(s, t, type, confidence, meta) ==
    /\ WriteBudget > 0
    /\ LET rel == Relationship(s, t, type, confidence, OrEmpty(meta))
           raises == StorageAddRelationshipRaises(backend, facts, rel)
       IN  /\ relationships' =
                 IF raises THEN relationships
                 ELSE StorageAddRelationship(backend, facts, relationships, rel)
           /\ writes' = Append(writes, Write("manual", 0, rel, raises))
    /\ UNCHANGED <<aux, orphan, backend, detector, facts, queue, unfinished, workerPc,
                   all_facts, todo, wait, closePc, closed, adding, lastAdded,
                   nAdds, nWaits, puts, enqueued, dones, rounds>>

\* wait_for_processing(): queue.join() returns at once when nothing is
\* outstanding, and otherwise suspends until task_done() reaches zero.
WaitCall ==
    /\ wait.pc \in {"none", "returned"}
    /\ nWaits < MaxWaits
    /\ nWaits' = nWaits + 1
    /\ LET called == [NoWait EXCEPT !.putAtCall = puts]
       IN  wait' = IF unfinished > 0
                   THEN [called EXCEPT !.pc = "waiting", !.suspended = TRUE]
                   ELSE [called EXCEPT !.pc = "returned", !.putAtReturn = puts,
                                       !.doneAtReturn = dones,
                                       !.unfinishedAtReturn = unfinished]
    /\ UNCHANGED <<aux, orphan, backend, detector, facts, relationships, queue,
                   unfinished, workerPc, all_facts, todo, closePc, closed,
                   adding, lastAdded, nAdds, puts, enqueued, dones, rounds,
                   writes>>

\* The woken join() resumes when the event loop runs its task again.
WaitReturn ==
    /\ wait.pc = "woken"
    /\ wait' = [wait EXCEPT !.pc = "returned", !.putAtReturn = puts,
                            !.doneAtReturn = dones,
                            !.unfinishedAtReturn = unfinished]
    /\ UNCHANGED <<aux, orphan, backend, detector, facts, relationships, queue,
                   unfinished, workerPc, all_facts, todo, closePc, closed,
                   adding, lastAdded, nAdds, nWaits, puts, enqueued, dones,
                   rounds, writes>>

\* ----------------------------------------------------------------- close
\* _processing_task.done(): the loop was left (`break`).
WorkerDone(pc) == pc = "cancelled"

\* close() up to its first suspension: task.cancel() asks for the worker to
\* be cancelled and `await self._processing_task` suspends until the worker
\* task is done.  Awaiting a task that is done already does not suspend:
\* close() then goes on to storage.close() and returns in the same step.
CloseCall ==
    /\ closePc = "not called"
    /\ closePc' = IF WorkerDone(workerPc) THEN "returned" ELSE "cancel sent"
    /\ closed' = WorkerDone(workerPc)
    /\ UNCHANGED <<aux, orphan, backend, detector, facts, relationships, queue,
                   unfinished, workerPc, all_facts, todo, wait, adding,
                   lastAdded, nAdds, nWaits, puts, enqueued, dones, rounds,
                   writes>>

\* close() resumes when the worker task is done: storage.close(), return.
\* Nothing here joins or cancels the executor's thread: a write it is still
\* running stays as it is.  Neither KnowledgeGraph nor Neo4jStorage keeps a
\* record of the close: later calls are made as before.
CloseReturn ==
    /\ closePc = "awaiting worker"
    /\ WorkerDone(workerPc)
    /\ closePc' = "returned"
    /\ closed' = TRUE
    /\ UNCHANGED <<aux, orphan, backend, detector, facts, relationships, queue,
                   unfinished, workerPc, all_facts, todo, wait, adding,
                   lastAdded, nAdds, nWaits, puts, enqueued, dones, rounds,
                   writes>>

\* ---------------------------------------------------------------- worker
\* Mutant: task.cancel() leaves the worker where it is.
CancelWorkerIgnored(pc) == pc

\* `except asyncio.CancelledError: break`: the worker task ends.
CancelWorker(pc) == "cancelled"

\* The job of the write in flight, as the executor holds it.
Job(round, source, triple) ==
    [round |-> round, source |-> source, triple |-> triple]

\* The CancelledError asked for by close() is thrown into the worker where
\* it is suspended (queue.get(), a storage call, the detector call) and
\* ends it without task_done().  Cancelling the worker cancels a Neo4j
\* write handed to the executor only while no pool thread has taken it: a
\* job that is running goes on in its thread (OrphanWrite).
WorkerCancelled ==
    /\ CancelRequested
    /\ closePc' = "awaiting worker"
    /\ workerPc' = CancelWorker(workerPc)
    /\ todo' = IF workerPc' = "cancelled" THEN <<>> ELSE todo
    /\ all_facts' = IF workerPc' = "cancelled" THEN <<>> ELSE all_facts
    /\ \E running \in (IF workerPc = "write" /\ workerPc' = "cancelled"
                       THEN BOOLEAN ELSE {FALSE}) :
          orphan' = IF running
                    THEN <<Job(Len(rounds), InFlight.fact.id, Head(todo))>>
                    ELSE orphan
    /\ rounds' = IF workerPc # "idle" /\ workerPc' = "cancelled"
                 THEN [rounds EXCEPT ![Len(rounds)].outcome = "cancelled"]
                 ELSE rounds
    /\ UNCHANGED <<aux, backend, detector, facts, relationships, queue,
                   unfinished, wait, closed, adding, lastAdded, nAdds, nWaits,
                   puts, enqueued, dones, writes>>

\* The transaction of a write whose worker has ended commits in its thread.
\* Nothing orders it with close(): it may commit while close() still awaits
\* the worker task, after close() has returned, or never (the step is not
\* taken).
OrphanWrite ==
    /\ orphan # <<>>
    /\ relationships' = ApplyTriples(backend, facts, relationships,
                            orphan[1].source, <<orphan[1].triple>>)
    /\ writes' = writes \o
           WorkerWrites(orphan[1].round, orphan[1].source, <<orphan[1].triple>>)
    /\ orphan' = <<>>
    /\ UNCHANGED <<aux, backend, detector, facts, queue, unfinished, workerPc,
                   all_facts, todo, wait, closePc, closed, adding, lastAdded,
                   nAdds, nWaits, puts, enqueued, dones, rounds>>

\* Mutant: the new fact is not excluded.
ExistingFactsWithSelf(read, new_fact) == read

\* Mutant: the facts stored before the new fact, as if the set had been
\* taken when the fact was added.
ExistingFactsStoredBefore(read, new_fact) ==
    IF \E i \in DOMAIN read : read[i].id = new_fact.id
    THEN SubSeq(read, 1,
             (CHOOSE i \in DOMAIN read : read[i].id = new_fact.id) - 1)
    ELSE read

\* [f for f in all_facts if f.id != new_fact.id]
ExistingFacts(read, new_fact) ==
    SelectSeq(read, LAMBDA f : f.id # new_fact.id)

\* Mutant: a second worker takes the next fact while a round is in flight.
WorkerFreeAlways(pc) == pc # "cancelled"

\* The one worker task is back at queue.get() only when its round is over.
WorkerFree(pc) == pc = "idle"

\* The worker with the result of get_all_facts() in hand, up to its next
\* suspension: the detector call, or task_done() and queue.get() again when
\* no detector is configured or no other fact is stored.  `before` are the
\* rounds of the facts dequeued earlier.
WorkerDecide(before, new_fact, read) ==
    LET existing_facts ==
            IF DetectorConfigured(detector)
            THEN ExistingFacts(read, new_fact)
            ELSE <<>>
        call == existing_facts # <<>>
    IN  /\ rounds' = Append(before,
               [fact |-> new_fact, existing |-> existing_facts,
                called |-> call,
                outcome |-> IF call THEN "detecting" ELSE "skipped",
                result |-> <<>>])
        /\ workerPc' = IF call THEN "detect" ELSE "idle"
        /\ unfinished' = IF call THEN unfinished ELSE TaskDone(unfinished)
        /\ dones' = IF call THEN dones ELSE dones + 1
        /\ wait' = IF call THEN wait ELSE WakeOnDrain(wait, TaskDone(unfinished))

\* _process_relationships from queue.get() to its next suspension: with
\* Neo4jStorage (and a detector) that is get_all_facts(), whose read has not
\* run yet; with InMemoryStorage the read is part of the step.
WorkerGet ==
    /\ WorkerFree(workerPc)
    /\ ~CancelRequested
    /\ queue # <<>>
    /\ queue' = Tail(queue)
    /\ IF DetectorConfigured(detector) /\ StorageSuspends(backend)
       THEN /\ rounds' = Append(rounds,
                   [fact |-> QueueGet(queue), existing |-> <<>>,
                    called |-> FALSE, outcome |-> "reading",
                    result |-> <<>>])
            /\ workerPc' = "read"
            /\ UNCHANGED <<unfinished, dones, wait>>
       ELSE WorkerDecide(rounds, QueueGet(queue), GetAllFacts(backend, facts))
    /\ UNCHANGED <<aux, orphan, backend, detector, facts, relationships, all_facts,
                   todo, closePc, closed, adding, lastAdded, nAdds, nWaits,
                   puts, enqueued, writes>>

\* The read transaction of the worker's get_all_facts() runs in its thread
\* (Neo4jStorage); the worker has not resumed.  A step of the pool thread:
\* a cancellation on its way to the worker does not hold it back.
WorkerRead ==
    /\ workerPc = "read"
    /\ all_facts' = GetAllFacts(backend, facts)
    /\ workerPc' = "read done"
    /\ UNCHANGED <<aux, orphan, backend, detector, facts, relationships, queue,
                   unfinished, todo, wait, closePc, closed, adding, lastAdded,
                   nAdds, nWaits, puts, enqueued, dones, rounds, writes>>

\* The worker resumes with what the read returned.
WorkerReadReturn ==
    /\ workerPc = "read done"
    /\ ~CancelRequested
    /\ WorkerDecide(SubSeq(rounds, 1, Len(rounds) - 1), InFlight.fact, all_facts)
    /\ all_facts' = <<>>
    /\ UNCHANGED <<aux, orphan, backend, detector, facts, relationships, queue, todo,
                   closePc, closed, adding, lastAdded, nAdds, nWaits, puts,
                   enqueued, writes>>

\* Mutant: triples whose target is not the id of a fact are skipped.
WriteOrderKnownTargets(result) ==
    SelectSeq(result, LAMBDA t : t.target_id \in FactIds)

\* `for target_id, rel_type, confidence in detected_relationships`
WriteOrder(result) == result

\* A function wrapped by CustomAIDetector may catch the CancelledError that
\* task.cancel() throws into it and go on to return or to raise; the
\* cancellation is then used up and the worker goes on.
DetectorMayCatchCancel(kind) == kind = "arbitrary"

\* The detector call can end now: always when no cancellation is on its
\* way, and otherwise only in a detector that catches it.
DetectorMayEnd(kind) == ~CancelRequested \/ DetectorMayCatchCancel(kind)

\* close() after a caught cancellation: it goes on awaiting the worker.
AfterDetectorCall == IF CancelRequested THEN "awaiting worker" ELSE closePc

\* detect_relationships returns: with InMemoryStorage the writes and
\* task_done() follow without a suspension; with Neo4jStorage the first
\* update_relationship suspends.
WorkerDetectReturn ==
    /\ workerPc = "detect"
    /\ DetectorMayEnd(detector)
    /\ closePc' = AfterDetectorCall
    /\ \E result \in DetectorResults(detector, InFlight.existing, WriteBudget) :
        LET triples == WriteOrder(result)
            atOnce == ~StorageSuspends(backend) \/ triples = <<>>
            source == InFlight.fact.id
        IN  /\ rounds' = SetOutcome(rounds, "returned", result)
            /\ relationships' =
                  IF atOnce
                  THEN ApplyTriples(backend, facts, relationships, source, triples)
                  ELSE relationships
            /\ writes' = IF atOnce
                         THEN writes \o WorkerWrites(Len(rounds), source, triples)
                         ELSE writes
            /\ todo' = IF atOnce THEN <<>> ELSE triples
            /\ workerPc' = IF atOnce THEN "idle" ELSE "write"
            /\ unfinished' = IF atOnce THEN TaskDone(unfinished) ELSE unfinished
            /\ dones' = IF atOnce THEN dones + 1 ELSE dones
            /\ wait' = IF atOnce THEN WakeOnDrain(wait, TaskDone(unfinished))
                       ELSE wait
    /\ UNCHANGED <<aux, orphan, backend, detector, facts, queue, all_facts, closed,
                   adding, lastAdded, nAdds, nWaits, puts, enqueued>>

\* The transaction of the update_relationship in flight commits in its
\* thread (Neo4jStorage); the worker has not resumed.  A step of the pool
\* thread: it commits also while a cancellation is on its way to the worker.
WorkerWrite ==
    /\ workerPc = "write"
    /\ relationships' = ApplyTriples(backend, facts, relationships,
                            InFlight.fact.id, <<Head(todo)>>)
    /\ writes' = writes \o
           WorkerWrites(Len(rounds), InFlight.fact.id, <<Head(todo)>>)
    /\ todo' = Tail(todo)
    /\ workerPc' = "written"
    /\ UNCHANGED <<aux, orphan, backend, detector, facts, queue, unfinished, all_facts,
                   wait, closePc, closed, adding, lastAdded, nAdds, nWaits,
                   puts, enqueued, dones, rounds>>

\* The worker resumes after a write: the next update_relationship, or
\* task_done() after the last.
WorkerWriteReturn ==
    /\ workerPc = "written"
    /\ ~CancelRequested
    /\ LET last == todo = <<>>
       IN  /\ workerPc' = IF last THEN "idle" ELSE "write"
           /\ unfinished' = IF last THEN TaskDone(unfinished) ELSE unfinished
           /\ dones' = IF last THEN dones + 1 ELSE dones
           /\ wait' = IF last THEN WakeOnDrain(wait, TaskDone(unfinished)) ELSE wait
    /\ UNCHANGED <<aux, orphan, backend, detector, facts, relationships, queue,
                   all_facts, todo, closePc, closed, adding, lastAdded, nAdds,
                   nWaits, puts, enqueued, rounds, writes>>

\* Mutant: the handler logs and forgets task_done().
OnExceptionNoTaskDone(u) == u

\* Mutant: the handler ends the loop.
OnExceptionBreak == "cancelled"

\* `except Exception` logs and calls task_done(); the loop goes on.
OnException(u) == TaskDone(u)

OnExceptionPc == "idle"

\* A Neo4j call can fail (connection lost); InMemoryStorage never raises.
StorageMayFail(b) == b = "neo4j"

\* detect_relationships raises an Exception.
WorkerDetectRaise ==
    /\ workerPc = "detect"
    /\ DetectorMayRaise(detector)
    /\ DetectorMayEnd(detector)
    /\ closePc' = AfterDetectorCall
    /\ rounds' = SetOutcome(rounds, "raised", <<>>)
    /\ workerPc' = OnExceptionPc
    /\ unfinished' = OnException(unfinished)
    /\ dones' = dones + (unfinished - unfinished')
    /\ wait' = WakeOnDrain(wait, unfinished')
    /\ UNCHANGED <<aux, orphan, backend, detector, facts, relationships, queue,
                   all_facts, todo, closed, adding, lastAdded, nAdds, nWaits,
                   puts, enqueued, writes>>

\* A function wrapped by CustomAIDetector may raise asyncio.CancelledError
\* (its own, or that of a task it awaited); nothing in the detector port
\* catches it.
DetectorMayRaiseCancelled(kind) == kind = "arbitrary"

\* detect_relationships raises CancelledError while close() has not asked
\* for a cancellation: `except asyncio.CancelledError: break` ends the
\* worker as a cancellation would, without task_done().
WorkerDetectCancelled ==
    /\ workerPc = "detect"
    /\ DetectorMayRaiseCancelled(detector)
    /\ ~CancelRequested
    /\ rounds' = SetOutcome(rounds, "cancelled", <<>>)
    /\ workerPc' = CancelWorker(workerPc)
    /\ UNCHANGED <<aux, orphan, backend, detector, facts, relationships, queue,
                   unfinished, all_facts, todo, wait, closePc, closed, adding,
                   lastAdded, nAdds, nWaits, puts, enqueued, dones, writes>>

\* get_all_facts() raises: the fact was dequeued, the round ends there.
WorkerReadRaise ==
    /\ workerPc = "read"
    /\ ~CancelRequested
    /\ StorageMayFail(backend)
    /\ rounds' = SetOutcome(rounds, "storage_failed", <<>>)
    /\ workerPc' = OnExceptionPc
    /\ unfinished' = OnException(unfinished)
    /\ dones' = dones + (unfinished - unfinished')
    /\ wait' = WakeOnDrain(wait, unfinished')
    /\ UNCHANGED <<aux, orphan, backend, detector, facts, relationships, queue,
                   all_facts, todo, closePc, closed, adding, lastAdded, nAdds,
                   nWaits, puts, enqueued, writes>>

\* The update_relationship in flight raises: the rest of the round's triples
\* are dropped.
WorkerWriteRaise ==
    /\ workerPc = "write"
    /\ ~CancelRequested
    /\ StorageMayFail(backend)
    /\ rounds' = SetOutcome(rounds, "storage_failed", InFlight.result)
    /\ todo' = <<>>
    /\ workerPc' = OnExceptionPc
    /\ unfinished' = OnException(unfinished)
    /\ dones' = dones + (unfinished - unfinished')
    /\ wait' = WakeOnDrain(wait, unfinished')
    /\ UNCHANGED <<aux, orphan, backend, detector, facts, relationships, queue,
                   all_facts, closePc, closed, adding, lastAdded, nAdds,
                   nWaits, puts, enqueued, writes>>

Worker ==
    \/ WorkerGet \/ WorkerRead \/ WorkerReadReturn \/ WorkerDetectReturn
    \/ WorkerWrite \/ WorkerWriteReturn \/ WorkerDetectRaise
    \/ WorkerReadRaise \/ WorkerWriteRaise \/ WorkerCancelled

Next ==
    \/ \E fid \in FactIds \cup {NoId, EmptyId}, in \in FactInputs :
          AddFact(fid, in[1], in[2])
    \/ AddFactReturn
    \/ \E s \in FactIds : \E t \in FactIds \ {s}, in \in ManualInputs :
          AddManualRelationship(s, t, in[1], in[2], in[3])
    \/ WaitCall
    \/ WaitReturn
    \/ CloseCall
    \/ CloseReturn
    \/ WorkerCancelled
    \/ OrphanWrite
    \/ WorkerGet
    \/ WorkerRead
    \/ WorkerReadReturn
    \/ WorkerDetectReturn
    \/ WorkerWrite
    \/ WorkerWriteReturn
    \/ WorkerDetectRaise
    \/ WorkerDetectCancelled
    \/ WorkerReadRaise
    \/ WorkerWriteRaise

Spec == Init /\ [][Next]_vars

\* The pipeline for the progress properties: the steps of Next but the
\* manual writes, which take no part in it.
LiveNext ==
    \/ \E fid \in FactIds \cup {NoId, EmptyId}, in \in FactInputs :
          AddFact(fid, in[1], in[2])
    \/ AddFactReturn
    \/ WaitCall
    \/ WaitReturn
    \/ CloseCall
    \/ CloseReturn
    \/ WorkerCancelled
    \/ OrphanWrite
    \/ WorkerGet
    \/ WorkerRead
    \/ WorkerReadReturn
    \/ WorkerDetectReturn
    \/ WorkerWrite
    \/ WorkerWriteReturn
    \/ WorkerDetectRaise
    \/ WorkerDetectCancelled
    \/ WorkerReadRaise
    \/ WorkerWriteRaise

\* The event loop runs every ready task and the executor every transaction
\* handed to it; a detector call that terminates completes.
LiveSpec ==
    /\ Init /\ [][LiveNext]_vars
    /\ WF_vars(Worker) /\ WF_vars(WaitReturn) /\ WF_vars(AddFactReturn)
    /\ WF_vars(CloseReturn)

\* ------------------------------------------- InMemoryStorage on its own
\* Mutant: `return self.facts.values()`, a view that follows the dict.
HeldListView(list, fs) == fs

\* `list(self.facts.values())` is a new list object: what the dict holds
\* later (fs) does not show in a list handed out earlier.
HeldList(list, fs) == list

\* InMemoryStorage.add_fact(fact)
StoreAddFact(fact) ==
    /\ Len(added) < MaxCalls
    /\ facts' = InMemoryAddFact(facts, fact)
    /\ added' = Append(added, fact)
    /\ held' = IF held = NoList THEN held
                ELSE [held EXCEPT !.list = HeldList(held.list, facts')]
    /\ UNCHANGED <<graph, relationships, parseVars, batchVars, netVars>>

\* InMemoryStorage.get_all_facts(); the caller keeps the list.
StoreGetAllFacts ==
    /\ held' = [calls |-> Len(added), list |-> InMemoryGetAllFacts(facts)]
    /\ UNCHANGED <<graph, facts, relationships, added, parseVars, batchVars,
                   netVars>>

StoreInit == Unused /\ StoreIdle /\ ParseIdle /\ BatchIdle /\ NetIdle

StoreNext ==
    \/ \E id \in FactIds, in \in FactInputs :
          StoreAddFact(Fact(id, in[1], OrEmpty(in[2])))
    \/ StoreGetAllFacts

StoreSpec == StoreInit /\ [][StoreNext]_vars

\* ------------------------------------------ the parser on its own
ParseCall ==
    /\ parsed = NotParsed
    /\ parsed' = ParseResponse(response, batch)
    /\ UNCHANGED <<graph, facts, relationships, storeVars, response, batch,
                   batchVars, netVars>>

ParseInit ==
    /\ Unused /\ StoreIdle /\ BatchIdle /\ NetIdle
    /\ response \in Responses
    /\ batch \in Batches
    /\ parsed = NotParsed

ParseNext == ParseCall

ParseSpec == ParseInit /\ [][ParseNext]_vars

\* ------------------------------------- the batching loop on its own
\* detect_relationships up to its first suspension: `if not existing_facts`.
DetectCall ==
    /\ detectPc = "not called"
    /\ detectPc' = IF existing = <<>> THEN "returned" ELSE "loop"
    /\ UNCHANGED <<graph, facts, relationships, storeVars, parseVars, netVars,
                   existing, max_facts_per_request, offset, requests, detected>>

\* One pass of the loop: the slice, the awaited _process_batch, extend().
BatchRequest ==
    /\ detectPc = "loop"
    /\ \E outcome \in RequestOutcomes :
        LET chunk == Slice(existing, offset, max_facts_per_request)
            batch_relationships == ProcessBatch(chunk, outcome)
        IN  /\ requests' = Append(requests,
                   [batch |-> chunk, failed |-> outcome.failed,
                    reply |-> outcome.reply, result |-> batch_relationships])
            /\ detected' = detected \o batch_relationships
    /\ offset' = offset + max_facts_per_request
    /\ detectPc' = IF offset' < Len(existing) THEN "loop" ELSE "returned"
    /\ UNCHANGED <<graph, facts, relationships, storeVars, parseVars, netVars,
                   existing, max_facts_per_request>>

BatchInit ==
    /\ Unused /\ StoreIdle /\ ParseIdle /\ NetIdle
    /\ existing \in ExistingLists
    /\ max_facts_per_request \in 1..MaxExisting
    /\ detectPc = "not called"
    /\ offset = 0
    /\ requests = <<>>
    /\ detected = <<>>

BatchNext == DetectCall \/ BatchRequest

BatchSpec == BatchInit /\ [][BatchNext]_vars

\* ------------------------------------- KnowledgeNetwork (synchronous)
\* Its facts dict and relationships list are the variables `facts` and
\* `relationships`; nothing is queued, every call runs to its end.
NetIds(fs) == {fs[i].id : i \in DOMAIN fs}

\* Mutant: only the source is looked up.
NetAddRelationshipRaisesSourceOnly(fs, s, t) == s \notin NetIds(fs)

\* `if source_id not in self.facts or target_id not in self.facts: raise`
NetAddRelationshipRaises(fs, s, t) ==
    s \notin NetIds(fs) \/ t \notin NetIds(fs)

\* self.relationships.append(relationship): no replace.
NetAppend(rs, rel) == Append(rs, rel)

\* get_relationships(fact_id, relationship_type)
NetGetRelationships(rs, fid, type) ==
    LET results == IF ~Falsy(fid)
                   THEN SelectSeq(rs, LAMBDA r : r.source_id = fid \/ r.target_id = fid)
                   ELSE rs
    IN  IF type # NoType THEN SelectSeq(results, LAMBDA r : r.type = type)
        ELSE results

\* [self.facts[r.source_id] for r in relationships if r.target_id == fact_id]:
\* the subscript raises KeyError for an id that is not stored.
NetRelatedFacts(fs, rs, fid, type) ==
    LET into == SelectSeq(NetGetRelationships(rs, fid, type),
                          LAMBDA r : r.target_id = fid)
    IN  IF \E i \in DOMAIN into : into[i].source_id \notin NetIds(fs)
        THEN [error |-> "KeyError", facts |-> <<>>]
        ELSE [error |-> "none",
              facts |-> [i \in DOMAIN into |-> InMemoryGetFact(fs, into[i].source_id)]]

NetGetSupportingFacts(fs, rs, fid) == NetRelatedFacts(fs, rs, fid, "supports")

NetGetContradictingFacts(fs, rs, fid) ==
    NetRelatedFacts(fs, rs, fid, "contradicts")

\* The loop of _detect_relationships_for_fact: `if target_id in self.facts`,
\* then add_relationship, which looks both ends up again.
RECURSIVE NetApplyDetected(_, _, _, _)
NetApplyDetected(fs, rs, source, detected_triples) ==
    IF detected_triples = <<>> THEN rs
    ELSE LET t == Head(detected_triples)
             write == /\ t.target_id \in NetIds(fs)
                      /\ ~NetAddRelationshipRaises(fs, source, t.target_id)
         IN  NetApplyDetected(fs,
                 IF write
                 THEN NetAppend(rs, Relationship(source, t.target_id, t.type,
                                                 t.confidence, "{}"))
                 ELSE rs,
                 source, Tail(detected_triples))

\* KnowledgeNetwork.add_fact(content, fact_id, metadata), detection included.
\* A detector that raises leaves add_fact after the fact was stored.
NetAddFact(fid, content, meta) ==
    /\ \E id \in (IF Falsy(fid) THEN FreshIds ELSE {fid}) :
        LET fact == Fact(id, content, OrEmpty(meta))
            stored == InMemoryAddFact(facts, fact)
            existing_now == IF DetectorConfigured(relationship_detector)
                            THEN ExistingFacts(stored, fact) ELSE <<>>
        IN  /\ facts' = stored
            /\ \/ /\ existing_now = <<>>
                  /\ relationships' = relationships
                  /\ lastCall' = [NoCall EXCEPT !.op = "add_fact", !.source = id]
               \/ /\ existing_now # <<>>
                  /\ \E result \in DetectorResults(relationship_detector,
                            existing_now, MaxWrites - Len(relationships)) :
                        /\ relationships' =
                              NetApplyDetected(stored, relationships, id, result)
                        /\ Len(relationships') <= MaxWrites
                        /\ lastCall' = [NoCall EXCEPT !.op = "add_fact",
                                             !.source = id, !.result = result]
               \/ /\ existing_now # <<>>
                  /\ DetectorMayRaise(relationship_detector)
                  /\ relationships' = relationships
                  /\ lastCall' = [NoCall EXCEPT !.op = "add_fact", !.source = id,
                                       !.error = "detector raised"]
    /\ UNCHANGED <<graph, storeVars, parseVars, batchVars, relationship_detector>>

\* KnowledgeNetwork.add_relationship(source_id, target_id, type, confidence, metadata)
NetAddRelationship(s, t, type, confidence, meta) ==
    /\ Len(relationships) < MaxWrites
    /\ LET raises == NetAddRelationshipRaises(facts, s, t)
       IN  /\ relationships' =
                 IF raises THEN relationships
                 ELSE NetAppend(relationships,
                          Relationship(s, t, type, confidence, OrEmpty(meta)))
           /\ lastCall' = [NoCall EXCEPT !.op = "add_relationship", !.source = s,
                                !.target = t,
                                !.error = IF raises THEN "ValueError" ELSE "none"]
    /\ UNCHANGED <<graph, facts, storeVars, parseVars, batchVars,
                   relationship_detector>>

\* KnowledgeNetwork.set_relationship_detector(detector)
NetSetDetector(kind) ==
    /\ relationship_detector' = kind
    /\ lastCall' = [NoCall EXCEPT !.op = "set_relationship_detector"]
    /\ UNCHANGED <<graph, facts, relationships, storeVars, parseVars, batchVars>>

NetInit == Unused /\ StoreIdle /\ ParseIdle /\ BatchIdle /\ NetIdle

NetNext ==
    \/ \E fid \in FactIds \cup {NoId, EmptyId}, in \in FactInputs :
          NetAddFact(fid, in[1], in[2])
    \/ \E s \in FactIds \cup {UnknownId}, t \in FactIds \cup {UnknownId},
          in \in ManualInputs :
          NetAddRelationship(s, t, in[1], in[2], in[3])
    \/ \E kind \in {"none", "stub", "arbitrary"} : NetSetDetector(kind)

NetSpec == NetInit /\ [][NetNext]_vars

\* ================================================================ claims
ManualWritesAfter(n) == \E i \in (n + 1)..Len(writes) : writes[i].by = "manual"

NoManualWrites == ~ManualWritesAfter(0)

\* The stored edges source -> target, as get_relationships() returns them.
EdgesOfPair(source, target) ==
    SelectSeq(GetRelationships(backend, relationships, NoId, NoType),
              LAMBDA r : r.source_id = source /\ r.target_id = target)

\* The add_relationship / update_relationship calls made for source -> target
\* that did not raise.
WritesOfPair(source, target) ==
    SelectSeq(writes, LAMBDA w : /\ w.rel.source_id = source
                                 /\ w.rel.target_id = target
                                 /\ ~w.raised)

\* close() has been called, or the worker task has ended on a CancelledError
\* that came out of the detector call.
WorkerStopped == closePc # "not called" \/ workerPc = "cancelled"

\* ---- C1
\* C1: get_fact(f.id) gives the fact add_fact returned (same id, content and
\* metadata), from the moment add_fact returns and while f is pending or in
\* flight, with or without a detector; the read uses the storage state only.
C1_AddedFactReadable ==
    lastAdded # NoFact => GetFact(backend, facts, lastAdded.id) = lastAdded

C1_Witness ==
    /\ detector # "none"
    /\ workerPc = "detect"
    /\ InFlight.fact = lastAdded
    /\ lastAdded.metadata = "{}"
    /\ GetFact(backend, facts, lastAdded.id) = lastAdded

\* ---- C2
\* What C2 says of the moment of return: whenever wait_for_processing() has
\* returned, the queue's pending-plus-in-flight count was zero at that
\* moment.  (It was zero when the waiter was woken; an add_fact that runs
\* before the waiter resumes makes it one again, see C5.)
C2_DrainedAtReturn == wait.pc = "returned" => wait.unfinishedAtReturn = 0

\* C2 as stated, its progress: while close() is not called, every detector
\* call and storage call terminating by returning or raising, a suspended
\* wait_for_processing() is woken and a woken one returns.  A detector call
\* that terminates by raising CancelledError ends the worker without
\* task_done(), and the wait is never woken.
C2_DrainLiveness ==
    /\ (wait.pc = "waiting") ~> (wait.pc # "waiting" \/ closePc # "not called")
    /\ (wait.pc = "woken") ~> (wait.pc = "returned")

\* ---- C3
\* Scenario C: in-memory store, the stub detector, add_fact(A), add_fact(B),
\* then wait_for_processing() called and returned; nothing else wrote.
ScenarioC ==
    /\ backend = "memory"
    /\ detector = "stub"
    /\ nAdds = 2
    /\ Len(facts) = 2
    /\ NoManualWrites
    /\ wait.pc = "returned"
    /\ wait.putAtCall = 2

ScenarioC_BA == Relationship(facts[2].id, facts[1].id, "supports", 5, "{}")

ScenarioC_AB == Relationship(facts[1].id, facts[2].id, "supports", 5, "{}")

\* C3 as stated: after scenario C storage holds exactly one relationship, the
\* SUPPORTS edge B -> A, and none whose source is A.
C3_OnlyEdgeBA == ScenarioC => relationships = <<ScenarioC_BA>>

\* C3 amended: after scenario C storage holds the SUPPORTS 0.5 edge B -> A
\* and, when B was already stored at the time the worker dequeued A (always so
\* when the two add_fact calls run back to back), also the SUPPORTS 0.5 edge
\* A -> B, written first; it holds nothing else.
C3_EdgesOfScenarioC ==
    ScenarioC =>
        relationships = IF rounds[1].existing # <<>>
                        THEN <<ScenarioC_AB, ScenarioC_BA>>
                        ELSE <<ScenarioC_BA>>

C3_Witness ==
    /\ ScenarioC
    /\ wait.suspended
    /\ relationships = <<ScenarioC_AB, ScenarioC_BA>>

\* ---- C4
\* C4: scenario D: with a detector that raises on every call (and no manual
\* write), a suspended wait_for_processing() returns unless close() is
\* called, and once it has returned get_relationships() is empty.
C4_ScenarioD ==
    /\ []((detector = "raising" /\ NoManualWrites /\ wait.pc = "returned")
            => GetRelationships(backend, relationships, NoId, NoType) = <<>>)
    /\ (detector = "raising" /\ wait.pc = "waiting")
          ~> (wait.pc = "returned" \/ closePc # "not called")

C4_Witness ==
    /\ detector = "raising"
    /\ nAdds = 2
    /\ wait.pc = "returned"
    /\ wait.suspended
    /\ wait.putAtCall = 2
    /\ \E i \in DOMAIN rounds : rounds[i].outcome = "raised"
    /\ closePc = "not called"
    /\ GetRelationships(backend, relationships, NoId, NoType) = <<>>

\* ---- C5
\* A step in which the worker writes a relationship for one of the first n
\* facts enqueued.
WorkerWritesFor(n) ==
    \E i \in (Len(writes) + 1)..Len(writes') :
        writes'[i].by = "worker" /\ writes'[i].round <= n

\* A step of add_manual_relationship.
ManualWriteStep ==
    \E i \in (Len(writes) + 1)..Len(writes') : writes'[i].by = "manual"

\* C5 as stated: once wait_for_processing() has returned, the worker writes
\* no relationship for a fact enqueued before the call returned; so the
\* stored relationships change only by add_manual_relationship and by the
\* processing of facts added after the return.
C5_StableAfterReturn ==
    [][wait.pc = "returned" =>
          /\ ~WorkerWritesFor(wait.putAtReturn)
          /\ (relationships' # relationships =>
                ManualWriteStep \/ WorkerWritesFor(puts'))]_vars

\* C5 amended: once wait_for_processing() has returned, the worker writes no
\* relationship for a fact enqueued before the call was made; so the stored
\* relationships change only by add_manual_relationship and by the
\* processing of facts added after the call was made.
C5_StableAfterDrain ==
    [][wait.pc = "returned" =>
          /\ ~WorkerWritesFor(wait.putAtCall)
          /\ (relationships' # relationships =>
                ManualWriteStep \/ WorkerWritesFor(puts'))]_vars

C5_Witness ==
    /\ wait.pc = "returned"
    /\ wait.suspended
    /\ wait.putAtCall = 1
    /\ wait.unfinishedAtReturn = 1
    /\ writes # <<>>
    /\ writes[Len(writes)].by = "worker"
    /\ writes[Len(writes)].round = 2
    /\ relationships # <<>>

\* ---- C6
\* C6: with the in-memory backend there is at most one relationship per
\* ordered (source, target) pair, and it is the one given by the last write
\* for the pair (manual or by the worker): its type, confidence, metadata.
C6_ReplaceOnAdd ==
    backend = "memory" =>
        \A s \in FactIds, t \in FactIds :
            LET w == WritesOfPair(s, t)
            IN  EdgesOfPair(s, t) = IF w = <<>> THEN <<>> ELSE <<w[Len(w)].rel>>

C6_Witness ==
    /\ backend = "memory"
    /\ Len(writes) = 2
    /\ writes[1].rel = Relationship(2, 1, "supports", 8, "{}")
    /\ writes[2].rel = Relationship(2, 1, "neutral", 3, "{k}")
    /\ GetRelationships(backend, relationships, 1, NoType)
          = <<Relationship(2, 1, "neutral", 3, "{k}")>>

\* ---- C7
\* C7: with either backend there is at most one edge per ordered (source,
\* target) pair, and it has the type, confidence and metadata of the last
\* add_relationship for the pair, also when that changed the type.
C7_ReplaceInBothBackends ==
    \A s \in FactIds, t \in FactIds :
        LET w == WritesOfPair(s, t)
            e == EdgesOfPair(s, t)
        IN  Len(e) <= 1 /\ (e # <<>> => e[1] = w[Len(w)].rel)

\* ---- C8
\* The stored facts y with an edge y -> x of the given type.
SourcesInto(x, type) ==
    {f \in SeqToSet(GetAllFacts(backend, facts)) :
        \E r \in SeqToSet(GetRelationships(backend, relationships, NoId, NoType)) :
            r.type = type /\ r.source_id = f.id /\ r.target_id = x}

\* C8: get_supporting_facts(x) returns exactly the stored facts y with a
\* SUPPORTS edge y -> x, each once, and get_contradicting_facts(x) exactly
\* those with a CONTRADICTS edge y -> x; edges leaving x contribute nothing.
C8_SupportingAndContradicting ==
    \A x \in FactIds :
        LET sup == GetSupportingFacts(backend, facts, relationships, x)
            con == GetContradictingFacts(backend, facts, relationships, x)
        IN  /\ SeqToSet(sup) = SourcesInto(x, "supports")
            /\ Len(sup) = Cardinality(SourcesInto(x, "supports"))
            /\ SeqToSet(con) = SourcesInto(x, "contradicts")
            /\ Len(con) = Cardinality(SourcesInto(x, "contradicts"))

C8_Witness ==
    /\ nAdds = 2
    /\ writes = <<Write("manual", 0,
                         Relationship(2, 1, "contradicts", 9, "{}"), FALSE)>>
    /\ GetContradictingFacts(backend, facts, relationships, 1)
          = <<GetFact(backend, facts, 2)>>
    /\ GetFact(backend, facts, 2) # NoFact
    /\ GetContradictingFacts(backend, facts, relationships, 2) = <<>>
    /\ GetSupportingFacts(backend, facts, relationships, 1) = <<>>

\* ---- C9
\* C9: with the in-memory backend no fact is in both get_supporting_facts(x)
\* and get_contradicting_facts(x).
C9_SupportingContradictingDisjoint ==
    backend = "memory" =>
        \A x \in FactIds :
            SeqToSet(GetSupportingFacts(backend, facts, relationships, x))
              \cap SeqToSet(GetContradictingFacts(backend, facts, relationships, x))
            = {}

C9_Witness ==
    /\ backend = "memory"
    /\ Len(writes) = 2
    /\ writes[1].rel.type = "supports"
    /\ writes[2].rel.type = "contradicts"
    /\ writes[1].rel.source_id = 2 /\ writes[1].rel.target_id = 1
    /\ writes[2].rel.source_id = 2 /\ writes[2].rel.target_id = 1
    /\ Len(GetContradictingFacts(backend, facts, relationships, 1)) = 1
    /\ GetSupportingFacts(backend, facts, relationships, 1) = <<>>

\* ---- C10
\* C10: get_network_stats() has total_relationships = support + contradiction
\* + neutral, and total_facts = the number of distinct stored fact ids.
C10_StatsAddUp ==
    LET st == GetNetworkStats(backend, facts, relationships)
    IN  /\ st.total_relationships
             = st.support_relationships + st.contradiction_relationships
               + st.neutral_relationships
        /\ st.total_facts = Cardinality({facts[i].id : i \in DOMAIN facts})

C10_Witness ==
    LET st == GetNetworkStats(backend, facts, relationships)
    IN  /\ st.total_facts = 2
        /\ nAdds = 2
        /\ st.total_relationships = 2
        /\ st.neutral_relationships = 1
        /\ st.contradiction_relationships = 1

\* ---- C11
\* C11: strict FIFO.  The facts the worker has dequeued so far are, in order,
\* the first facts add_fact enqueued, whatever the interleaving of add_fact
\* callers with the worker.
C11_StrictFifo ==
    /\ Len(rounds) <= Len(enqueued)
    /\ \A i \in DOMAIN rounds : rounds[i].fact = enqueued[i]
    /\ queue = SubSeq(enqueued, Len(rounds) + 1, Len(enqueued))

\* Two different facts were both enqueued before the first was dequeued, and
\* both have been dequeued.
C11_Witness ==
    /\ Len(rounds) = 2
    /\ rounds[1].fact # rounds[2].fact
    /\ \E j \in DOMAIN rounds[1].existing :
          rounds[1].existing[j].id = rounds[2].fact.id
    /\ rounds[1].fact = enqueued[1]

\* ---- C12
\* C12: when no detector is configured, add_fact enqueues nothing: the queue
\* is empty and the count zero in every reachable state, the worker never
\* dequeues and never writes, wait_for_processing() returns without
\* suspending, and every stored relationship is one add_manual_relationship
\* wrote.
C12_NoDetectorNoPipeline ==
    detector = "none" =>
        /\ queue = <<>> /\ unfinished = 0 /\ puts = 0
        /\ rounds = <<>> /\ workerPc \in {"idle", "cancelled"}
        /\ \A i \in DOMAIN writes : writes[i].by = "manual"
        /\ wait.pc \in {"none", "returned"} /\ ~wait.suspended
        /\ \A r \in SeqToSet(GetRelationships(backend, relationships, NoId, NoType)) :
              \E i \in DOMAIN writes : writes[i].by = "manual" /\ writes[i].rel = r

C12_Witness ==
    /\ detector = "none"
    /\ nAdds = 2
    /\ Len(facts) = 2
    /\ wait.pc = "returned"
    /\ relationships # <<>>

\* ---- C13
\* C13: add_manual_relationship leaves the queue, the pending-plus-in-flight
\* count, the worker and the stored facts as they are and writes the edge to
\* storage; with the in-memory backend the edge is stored and returned by
\* get_relationships() for both of its endpoints even when its source or
\* target is not a stored fact.
C13_ManualBypassesPipeline ==
    [][ManualWriteStep =>
          LET rel == writes'[Len(writes')].rel
          IN  /\ queue' = queue /\ unfinished' = unfinished
              /\ puts' = puts /\ dones' = dones
              /\ workerPc' = workerPc /\ rounds' = rounds /\ todo' = todo
              /\ facts' = facts
              /\ relationships' =
                    StorageAddRelationship(backend, facts, relationships, rel)
              /\ backend = "memory" =>
                    /\ relationships' # <<>>
                    /\ relationships'[Len(relationships')] = rel
                    /\ \A id \in {rel.source_id, rel.target_id} :
                          rel \in SeqToSet(GetRelationships(backend,
                                      relationships', id, NoType))]_vars

\* A fact is pending while the in-memory store holds a manual edge one of
\* whose endpoints is not a stored fact.
C13_Witness ==
    /\ backend = "memory"
    /\ queue # <<>>
    /\ Len(facts) = 1
    /\ Len(writes) = 1 /\ writes[1].by = "manual"
    /\ GetRelationships(backend, relationships, facts[1].id, NoType)
          = <<writes[1].rel>>

\* ---- C14
\* The update_relationship calls the worker made in round i.
WritesOfRound(i) ==
    SelectSeq(writes, LAMBDA w : w.by = "worker" /\ w.round = i)

\* Round i is over (the worker has left it).
RoundOver(i) == i < Len(rounds) \/ workerPc \in {"idle", "cancelled"}

\* A step in which the round in flight ends on an exception other than a
\* cancellation.
RoundFailsStep ==
    /\ rounds' # <<>>
    /\ rounds'[Len(rounds')].outcome \in {"raised", "storage_failed"}
    /\ rounds' # rounds

\* C14: worker failure isolation.  An exception other than a cancellation in
\* the storage read, the detector call or a relationship write does not end
\* the worker (only a cancellation does: close(), or a CancelledError out of
\* the detector call): the failed item is marked done and the worker is back
\* at the queue, so while the worker runs every dequeued item but the one in
\* flight has been marked done; every fact enqueued, before or after a
\* failure, is dequeued and finished unless the worker is cancelled; and a
\* round whose detection returned and whose writes did not fail has written
\* every relationship the detector returned.
C14_WorkerSurvivesFailure ==
    /\ [][RoundFailsStep =>
            /\ workerPc' = "idle"
            /\ dones' = dones + 1
            /\ unfinished' = unfinished - 1]_vars
    /\ [](workerPc = "cancelled" =>
            \/ closePc # "not called"
            \/ rounds[Len(rounds)].outcome = "cancelled")
    /\ [](workerPc # "cancelled" =>
            dones = IF workerPc = "idle" THEN Len(rounds) ELSE Len(rounds) - 1)
    /\ [](\A i \in DOMAIN rounds :
            (rounds[i].outcome = "returned" /\ RoundOver(i)) =>
                WritesOfRound(i) =
                    WorkerWrites(i, rounds[i].fact.id, rounds[i].result))
    /\ \A n \in 1..MaxAdds :
          (Len(enqueued) >= n) ~> (WorkerStopped \/ dones >= n)

\* The first fact's processing raised; the worker went on to the second fact
\* and wrote what the detector returned for it.
C14_Witness ==
    /\ ~WorkerStopped
    /\ Len(rounds) = 2
    /\ rounds[1].outcome \in {"raised", "storage_failed"}
    /\ rounds[2].outcome = "returned"
    /\ rounds[2].result # <<>>
    /\ workerPc = "idle"
    /\ dones = 2
    /\ WritesOfRound(2) # <<>>
    /\ relationships # <<>>

\* ---- C15
\* A step in which an update_relationship of the worker is recorded.
WorkerWriteStep ==
    \E i \in (Len(writes) + 1)..Len(writes') : writes'[i].by = "worker"

\* C15 as stated: once close() has returned the worker has terminated, and
\* from then on no round starts or finishes, no worker write happens (the
\* detection or write in flight at close() is abandoned), nothing is taken
\* off the queue, and storage changes only by add_manual_relationship.
\* With Neo4jStorage the write in flight is a transaction in an executor
\* thread that close() neither joins nor cancels: it can commit after
\* close() has returned.
C15_NothingAfterClose ==
    /\ [](closed => workerPc = "cancelled" /\ todo = <<>>)
    /\ [][closed =>
            /\ rounds' = rounds /\ dones' = dones
            /\ ~WorkerWriteStep
            /\ Len(queue') >= Len(queue)
            /\ SubSeq(queue', 1, Len(queue)) = queue
            /\ (relationships' # relationships => ManualWriteStep)]_vars

\* ---- C16
\* The edges storage holds, as Relationship objects.
StoredEdges ==
    IF backend = "memory" THEN relationships
    ELSE [i \in DOMAIN relationships |-> Neo4jFromEdge(relationships[i])]

\* C16 as stated: get_relationships(fact_id, relationship_type) returns all
\* stored edges when no fact_id is given (None), otherwise exactly the stored
\* edges with fact_id as source or target; a given relationship_type
\* restricts the result to the edges of that type.
C16_GetRelationshipsSelects ==
    \A fid \in FactIds \cup {NoId, EmptyId}, type \in Types \cup {NoType} :
        GetRelationships(backend, relationships, fid, type) =
            SelectSeq(StoredEdges,
                LAMBDA r : /\ (fid = NoId \/ r.source_id = fid \/ r.target_id = fid)
                           /\ (type = NoType \/ r.type = type))

\* ---- C17
\* C17 as stated: in both backends add_fact never fails, and afterwards
\* exactly one fact with the id is stored, with the content and metadata of
\* the last add_fact (taken when no add_fact call is still under way).
C17_AddFactInsertsOrOverwrites ==
    (nAdds > 0 /\ adding = {}) =>
        /\ lastAdded # NoFact
        /\ Cardinality({i \in DOMAIN facts : facts[i].id = lastAdded.id}) = 1
        /\ StorageGetFact(backend, facts, lastAdded.id) = lastAdded

\* ---- C18
StoredIds == {facts[i].id : i \in DOMAIN facts}

\* C18: with the Neo4j backend, add_manual_relationship for a source or
\* target id that is not a stored fact raises nothing and returns its
\* Relationship, and leaves the stored edges and facts as they were.
C18_Neo4jSkipsMissingEndpoint ==
    [][(ManualWriteStep /\ backend = "neo4j") =>
          LET call == writes'[Len(writes')]
          IN  (call.rel.source_id \notin StoredIds
                 \/ call.rel.target_id \notin StoredIds)
                 => /\ ~call.raised
                    /\ relationships' = relationships
                    /\ facts' = facts]_vars

\* An edge was asked for between a stored fact and an id that is not stored:
\* the call returned and no edge is stored.
C18_Witness ==
    /\ backend = "neo4j"
    /\ Len(facts) = 1
    /\ Len(writes) = 1 /\ writes[1].by = "manual"
    /\ writes[1].rel.source_id \in StoredIds
    /\ writes[1].rel.target_id \notin StoredIds
    /\ ~writes[1].raised
    /\ GetRelationships(backend, relationships, NoId, NoType) = <<>>

\* ---- C19
\* C19 as stated: update_relationship is add_relationship with empty
\* metadata, so when a manual write and a worker write for the same ordered
\* pair follow one another, the pair's stored edge is the later of the two
\* (a worker write leaves the detector's type and confidence and empty
\* metadata).
C19_LastWriterWins ==
    \A s \in FactIds, t \in FactIds :
        LET w == WritesOfPair(s, t)
            n == Len(w)
        IN  (n >= 2 /\ w[n].by # w[n - 1].by /\ EdgesOfPair(s, t) # <<>>)
               => EdgesOfPair(s, t) = <<w[n].rel>>

\* ---- C20
\* C20 as stated: no detector realization lets a failure of its delegate
\* reach the orchestrator, so no detection round ends with an exception
\* raised by detect_relationships.
C20_DetectorNeverRaises ==
    \A i \in DOMAIN rounds : rounds[i].outcome # "raised"

\* ---- C21
\* The stored edges of the type into x whose source is a stored fact.
ResolvingInto(x, type) ==
    SelectSeq(StoredEdges,
        LAMBDA r : r.type = type /\ r.target_id = x /\ r.source_id \in StoredIds)

\* C21: reads never fail on a missing fact.  get_fact of an id that is not
\* stored gives the absent result, and get_supporting_facts /
\* get_contradicting_facts return, in edge order, the stored facts at the
\* source of the edges into x whose source resolves, skipping every other
\* edge; the absent result never appears in them.
C21_ReadsSkipMissingFacts ==
    \A x \in FactIds \cup {UnknownId} :
        /\ x \notin StoredIds => GetFact(backend, facts, x) = NoFact
        /\ \A type \in {"supports", "contradicts"} :
              LET got == RelatedFacts(backend, facts, relationships, x, type)
                  into == ResolvingInto(x, type)
              IN  /\ got = [i \in DOMAIN into |->
                               GetFact(backend, facts, into[i].source_id)]
                  /\ \A i \in DOMAIN got : got[i] # NoFact /\ got[i].id \in StoredIds

\* A stored fact has an incoming SUPPORTS edge from an id that is not stored.
C21_Witness ==
    /\ Len(facts) = 1
    /\ \E i \in DOMAIN StoredEdges :
          /\ StoredEdges[i].target_id = facts[1].id
          /\ StoredEdges[i].source_id \notin StoredIds
          /\ StoredEdges[i].type = "supports"
    /\ GetSupportingFacts(backend, facts, relationships, facts[1].id) = <<>>
    /\ \E x \in FactIds : GetFact(backend, facts, x) = NoFact

\* ---- C22
\* A step in which the worker takes a fact off the queue.
DequeueStep == Len(rounds') = Len(rounds) + 1

\* The worker is in a round: a fact is dequeued and not yet marked done.
InRound == workerPc \in {"read", "read done", "detect", "write", "written"}

\* C22: serial consumption.  At most one fact is dequeued and not yet marked
\* done; the worker takes the next fact only when the round before is over;
\* and every write the worker makes belongs to the round in flight, so the
\* rounds of two facts never overlap.
C22_SerialConsumption ==
    /\ [](Len(rounds) - dones \in {0, 1})
    /\ [](InRound => Len(rounds) - dones = 1)
    /\ [][DequeueStep => (workerPc = "idle" /\ todo = <<>>)]_vars
    /\ [][\A i \in (Len(writes) + 1)..Len(writes') :
             writes'[i].by = "worker" =>
                 /\ writes'[i].round = Len(rounds)
                 /\ \/ workerPc \in {"detect", "write"}
                    \/ workerPc = "cancelled" /\ orphan # <<>>]_vars

\* The second fact is in its round after the first fact's round wrote.
C22_Witness ==
    /\ Len(rounds) = 2
    /\ workerPc = "detect"
    /\ dones = 1
    /\ WritesOfRound(1) # <<>>

\* ---- C23
\* The rounds that ended by success, by an empty remaining set or by an
\* exception.
RoundsEnded ==
    {i \in DOMAIN rounds : RoundOver(i) /\ rounds[i].outcome # "cancelled"}

\* C23: every dequeued item is marked done exactly once whatever the outcome
\* of its round, so task_done() has been called once per ended round, the
\* outstanding count is the number of facts enqueued and not yet marked done,
\* it is never negative, and task_done() is never called more often than
\* items were dequeued.
C23_DoneExactlyOnce ==
    /\ dones = Cardinality(RoundsEnded)
    /\ unfinished = Len(enqueued) - dones
    /\ unfinished = puts - dones
    /\ unfinished >= 0
    /\ dones <= Len(rounds)
    /\ unfinished >= Len(queue)

\* One round ended by an exception and the next by success.
C23_Witness ==
    /\ dones = 2
    /\ unfinished = 0
    /\ rounds[1].outcome \in {"raised", "storage_failed"}
    /\ rounds[2].outcome = "returned"

\* ---- C24
\* The detector was invoked in round i.
DetectorCalled(i) == rounds[i].called

\* The result of get_all_facts() the worker goes on with: the list its read
\* transaction returned (Neo4jStorage), or storage as it is (InMemoryStorage,
\* where the read is part of the step).
ReadInHand ==
    IF workerPc = "read done" THEN all_facts ELSE GetAllFacts(backend, facts)

\* A step in which the worker, the read in hand, calls the detector or
\* skips the fact.
DecideStep ==
    /\ rounds' # rounds
    /\ rounds' # <<>>
    /\ rounds'[Len(rounds')].outcome \in {"detecting", "skipped"}

\* C24: the detector is invoked at most once per dequeued fact (a detector
\* call starts only in a round in which none was made), and only when the
\* stored facts other than the new fact are not none; its existing-facts
\* argument is never empty and never holds a fact with the new fact's id.
C24_DetectorCalledOnceWithOthers ==
    /\ [](\A i \in DOMAIN rounds :
            IF DetectorCalled(i)
            THEN /\ rounds[i].existing # <<>>
                 /\ \A j \in DOMAIN rounds[i].existing :
                       rounds[i].existing[j].id # rounds[i].fact.id
            ELSE /\ rounds[i].outcome \notin {"detecting", "returned", "raised"}
                 /\ rounds[i].result = <<>> /\ WritesOfRound(i) = <<>>)
    /\ [][(workerPc' = "detect" /\ workerPc # "detect") =>
            /\ DequeueStep \/ ~InFlight.called
            /\ DecideStep
            /\ rounds'[Len(rounds')].called]_vars
    /\ [][DecideStep =>
            (workerPc' = "detect" <=>
                \E f \in SeqToSet(ReadInHand) :
                    f.id # rounds'[Len(rounds')].fact.id)]_vars

\* The first fact found no other fact and was skipped; the second was given
\* the first.
C24_Witness ==
    /\ Len(rounds) = 2
    /\ rounds[1].outcome = "skipped" /\ rounds[1].existing = <<>>
    /\ rounds[2].outcome = "returned"
    /\ Len(rounds[2].existing) = 1
    /\ rounds[2].existing[1].id = rounds[1].fact.id

\* ---- C25
\* C25: the existing-facts argument for a fact f is every fact in storage
\* when the worker, having dequeued f, reads storage (with InMemoryStorage
\* in the step that dequeues f, with Neo4jStorage in the read transaction
\* that follows), except f; a fact stored after add_fact(f) returned and
\* before f is dequeued is part of it.
C25_ExistingFactsAtProcessingTime ==
    /\ [][DecideStep =>
            rounds'[Len(rounds')].existing =
                SelectSeq(ReadInHand,
                          LAMBDA f : f.id # rounds'[Len(rounds')].fact.id)]_vars
    /\ [][(workerPc = "read" /\ workerPc' = "read done") =>
            all_facts' = GetAllFacts(backend, facts)]_vars

\* The first fact enqueued is in detection and was given the fact that was
\* added after it.
C25_Witness ==
    /\ Len(enqueued) = 2
    /\ enqueued[1].id # enqueued[2].id
    /\ Len(rounds) = 1
    /\ workerPc = "detect"
    /\ rounds[1].fact = enqueued[1]
    /\ \E j \in DOMAIN rounds[1].existing :
          rounds[1].existing[j].id = enqueued[2].id

\* ---- C26
\* A step in which an add_fact call ends by raising what the storage raised.
AddFactRaisesStep ==
    nAdds' = nAdds + 1 /\ lastAdded' = NoFact /\ adding' = adding

\* A step in which an add_fact call returns its fact.
AddFactReturnsStep ==
    \/ nAdds' = nAdds + 1 /\ adding' = adding /\ lastAdded' # NoFact
    \/ adding' # adding /\ adding' \subseteq adding

\* C26: store before enqueue.  Every fact in the queue or in flight has its
\* id in storage; an add_fact whose storage write raised leaves the queue,
\* the outstanding count and the stored facts as they were, and one that
\* returns has stored the fact and, with a detector, puts it at the tail of
\* the queue; nothing else puts anything on the queue.
C26_StoreBeforeEnqueue ==
    /\ [](\A i \in DOMAIN queue : queue[i].id \in StoredIds)
    /\ [](InRound => InFlight.fact.id \in StoredIds)
    /\ [][AddFactRaisesStep =>
            /\ queue' = queue /\ unfinished' = unfinished
            /\ puts' = puts /\ facts' = facts]_vars
    /\ [][AddFactReturnsStep =>
            /\ GetFact(backend, facts', lastAdded'.id) = lastAdded'
            /\ queue' = IF detector # "none"
                        THEN Append(queue, lastAdded') ELSE queue]_vars
    /\ [][puts' # puts => AddFactReturnsStep]_vars

\* A second add_fact with a stored id raised in the Neo4j backend while the
\* first fact was still pending.
C26_Witness ==
    /\ backend = "neo4j"
    /\ detector # "none"
    /\ nAdds = 2
    /\ lastAdded = NoFact
    /\ Len(queue) = 1 /\ unfinished = 1
    /\ Len(facts) = 1

\* ---- C27
\* The stored edges source -> target, whatever the target.
EdgesFromTo(rs, source, target) ==
    SelectSeq(rs, LAMBDA r : r.source_id = source /\ r.target_id = target)

\* The worker and a caller have both written the pair.
PairRaced(source, target) ==
    /\ \E i \in DOMAIN writes :
          /\ writes[i].by = "manual"
          /\ writes[i].rel.source_id = source /\ writes[i].rel.target_id = target
    /\ \E i \in DOMAIN writes :
          /\ writes[i].by = "worker"
          /\ writes[i].rel.source_id = source /\ writes[i].rel.target_id = target

\* C27 as stated, in the form a run can refute: with the in-memory backend a
\* worker write and an add_manual_relationship for the same ordered pair
\* interleave between the filter and the append, so that after both the
\* store holds two edges for the pair.
C27_RaceLeavesTwoEdges ==
    backend = "memory" =>
        \A s \in FactIds, t \in FactIds :
            PairRaced(s, t) => Len(EdgesFromTo(relationships, s, t)) = 2

\* C27 amended: InMemoryStorage.add_relationship has no suspension point
\* between its filter and its append, so the replace is one step: every
\* write leaves its edge last in the list and the only edge of its pair, and
\* no reachable state holds two edges for one ordered pair, whichever of the
\* worker and the callers wrote it.
C27_ReplaceIsAtomic ==
    /\ [](backend = "memory" =>
            \A s \in FactIds, t \in FactIds \cup {UnknownId} :
                Len(EdgesFromTo(relationships, s, t)) <= 1)
    /\ [][(backend = "memory" /\ Len(writes') > Len(writes)) =>
            LET rel == writes'[Len(writes')].rel
            IN  /\ relationships' # <<>>
                /\ relationships'[Len(relationships')] = rel
                /\ Len(EdgesFromTo(relationships', rel.source_id,
                                   rel.target_id)) = 1]_vars

\* A caller wrote the pair, then the worker wrote it: one edge, the worker's.
C27_Witness ==
    /\ backend = "memory"
    /\ Len(writes) = 2
    /\ writes[1].by = "manual" /\ writes[2].by = "worker"
    /\ SamePair(writes[1].rel, writes[2].rel)
    /\ PairRaced(writes[1].rel.source_id, writes[1].rel.target_id)
    /\ relationships = <<writes[2].rel>>

\* ---- C28
IsPrefix(p, q) == Len(p) <= Len(q) /\ p = SubSeq(q, 1, Len(p))

\* What round i writes when nothing stops it.
WritesAskedFor(i) == WorkerWrites(i, rounds[i].fact.id, rounds[i].result)

\* C28 as stated, its termination: close() can be called in every state in
\* which it has not been, and once called it returns, whether the worker
\* waits on the queue or is in a round.  (It does not return when the
\* cancellation reaches the worker inside a detector call that catches it,
\* as a function wrapped by CustomAIDetector may: the worker goes on and
\* close() goes on awaiting it.)
C28_CloseAlwaysTerminates ==
    /\ [](closePc = "not called" => ENABLED CloseCall)
    /\ (closePc # "not called") ~> closed
    /\ [](closed => workerPc = "cancelled")

\* C28 as stated, the round it cancels: the writes of a cancelled round are
\* a prefix, in the detector's result order, of the round's triples; they
\* stay in the write history, and none is added once the round has been
\* cancelled.  With Neo4jStorage the update_relationship in flight is a
\* transaction in an executor thread, which the cancellation does not stop:
\* it commits after the round was cancelled.
C28_CancelledRoundsKeepPrefix ==
    /\ [](\A i \in DOMAIN rounds :
            rounds[i].outcome = "cancelled" =>
                IsPrefix(WritesOfRound(i), WritesAskedFor(i)))
    /\ [][\A i \in DOMAIN rounds :
            rounds[i].outcome = "cancelled" =>
                SelectSeq(writes', LAMBDA w : w.by = "worker" /\ w.round = i)
                   = WritesOfRound(i)]_vars

\* ---- C29
\* C29: every write of the worker has as source the fact of its round and as
\* target, type and confidence those of a triple the detector returned for
\* that fact; a round's writes follow the result's order, and a round that
\* ran to its end wrote every triple, whatever its target id (the fact
\* itself, or an id that is not stored).
C29_WorkerWritesWhatDetectorReturned ==
    /\ \A k \in DOMAIN writes :
          writes[k].by = "worker" =>
              /\ writes[k].round \in DOMAIN rounds
              /\ writes[k].rel.source_id = rounds[writes[k].round].fact.id
              /\ \E j \in DOMAIN rounds[writes[k].round].result :
                    LET t == rounds[writes[k].round].result[j]
                    IN  /\ writes[k].rel.target_id = t.target_id
                        /\ writes[k].rel.type = t.type
                        /\ writes[k].rel.confidence = t.confidence
    /\ \A i \in DOMAIN rounds :
          /\ IsPrefix(WritesOfRound(i), WritesAskedFor(i))
          /\ (rounds[i].outcome = "returned" /\ RoundOver(i))
                => Len(WritesOfRound(i)) = Len(rounds[i].result)

\* A round wrote an edge to an id that is not stored and an edge from the
\* fact to itself.
C29_Witness ==
    /\ backend = "memory"
    /\ rounds # <<>>
    /\ rounds[Len(rounds)].outcome = "returned"
    /\ workerPc = "idle"
    /\ Len(rounds[Len(rounds)].result) = 2
    /\ rounds[Len(rounds)].result[1].target_id = UnknownId
    /\ rounds[Len(rounds)].result[2].target_id = rounds[Len(rounds)].fact.id
    /\ Len(WritesOfRound(Len(rounds))) = 2
    /\ Len(relationships) = 2

\* ---- C30
PairsOf(rs) == {<<rs[i].source_id, rs[i].target_id>> : i \in DOMAIN rs}

\* C30: with the in-memory backend nothing is deleted.  In every step the
\* stored fact ids and the ordered pairs that have an edge grow or stay, so
\* total_facts and total_relationships never decrease; a stored fact changes
\* only by an add_fact with its id, and a stored edge goes only when the
\* step writes an edge for the same ordered pair.
C30_NothingDeleted ==
    [][backend = "memory" =>
          /\ {facts[i].id : i \in DOMAIN facts}
                \subseteq {facts'[i].id : i \in DOMAIN facts'}
          /\ PairsOf(relationships) \subseteq PairsOf(relationships')
          /\ Len(facts') >= Len(facts)
          /\ Len(relationships') >= Len(relationships)
          /\ \A i \in DOMAIN facts :
                facts'[i] # facts[i] =>
                    /\ nAdds' = nAdds + 1
                    /\ lastAdded'.id = facts[i].id
                    /\ facts'[i] = lastAdded'
          /\ \A r \in SeqToSet(relationships) :
                r \notin SeqToSet(relationships') =>
                    \E k \in (Len(writes) + 1)..Len(writes') :
                        SamePair(writes'[k].rel, r)]_vars

\* A fact was overwritten by an add_fact with its id and an edge replaced by
\* a write for its pair.
C30_Witness ==
    /\ backend = "memory"
    /\ nAdds = 2
    /\ Len(facts) = 1 /\ facts[1].content = "c2"
    /\ Len(writes) = 2
    /\ Len(relationships) = 1
    /\ writes[1].rel # writes[2].rel

\* ---- C31
\* The ids of a log of add_fact calls, in the order they were first added.
RECURSIVE FirstAdded(_)
FirstAdded(log) ==
    IF log = <<>> THEN <<>>
    ELSE LET before == FirstAdded(SubSeq(log, 1, Len(log) - 1))
             id == log[Len(log)].id
         IN  IF id \in SeqToSet(before) THEN before ELSE Append(before, id)

\* The fact the latest add_fact call of the log gave the id.
LatestOf(log, id) ==
    log[CHOOSE i \in DOMAIN log :
            log[i].id = id /\ \A j \in DOMAIN log : j > i => log[j].id # id]

\* What the claim says get_all_facts() returns after the calls of the log.
InsertionOrder(log) ==
    [k \in DOMAIN FirstAdded(log) |-> LatestOf(log, FirstAdded(log)[k])]

\* C31: InMemoryStorage.get_all_facts returns the stored facts in the order
\* their ids were first added, each with the content of the latest add_fact
\* for its id (a re-added id keeps its position); and a list it returned
\* still holds what it held when it was returned, whatever add_fact calls
\* follow.
C31_SnapshotInInsertionOrder ==
    /\ InMemoryGetAllFacts(facts) = InsertionOrder(added)
    /\ held # NoList =>
          held.list = InsertionOrder(SubSeq(added, 1, held.calls))

\* A list of two facts was returned, then the first id was added again with
\* another content: the store shows the new content in the old position,
\* the returned list the old content.
C31_Witness ==
    /\ held # NoList
    /\ held.calls = 2
    /\ Len(added) = 3
    /\ Len(held.list) = 2
    /\ added[3].id = added[1].id
    /\ added[3] # added[1]
    /\ held.list[1] = added[1]
    /\ InMemoryGetAllFacts(facts)[1] = added[3]
    /\ InMemoryGetAllFacts(facts)[2] = added[2]

\* ---- C32
\* The entries of the reply: those of the JSON array it holds, if it holds one.
EntriesOf(r) == IF Unfence(r).kind = "array" THEN Unfence(r).entries ELSE <<>>

BatchIds == {batch[i].id : i \in DOMAIN batch}

\* The entry names a fact of the batch, one of the three relationship words
\* in any case, and a confidence strictly greater than 0.3.
Qualifies(e) ==
    /\ e.fact_id \in BatchIds
    /\ e.relationship \in {"supports", "Contradicts", "NEUTRAL"}
    /\ FloatRaises(e.confidence) = "none"
    /\ Float(e.confidence) > Threshold

\* The entry's relationship is a string (or absent), its confidence
\* converts to a float (or is absent) and its fact_id can be hashed.
WellFormed(e) ==
    /\ e.relationship # JsonNull
    /\ e.confidence \notin {JsonNull, "str high"}
    /\ e.fact_id # UnhashableId

QualifyingTriples ==
    LET q == SelectSeq(EntriesOf(response), Qualifies)
    IN  [i \in DOMAIN q |->
            Triple(q[i].fact_id, Lower(q[i].relationship), Float(q[i].confidence))]

\* C32 as stated: _parse_response returns a triple for exactly the entries
\* of the reply that name a fact of the batch, one of the three relationship
\* words and a confidence above 0.3, whatever the delegate returns.
C32_ExactlyTheQualifyingEntries ==
    parsed # NotParsed => parsed.relationships = QualifyingTriples

\* The reply (its fence removed) is a JSON array of well-formed entries.
ReplyWellFormed ==
    /\ Unfence(response).kind = "array"
    /\ \A i \in DOMAIN EntriesOf(response) : WellFormed(EntriesOf(response)[i])

\* C32 amended: when the reply is a JSON array in which no entry has a
\* relationship that is not a string, a confidence that does not convert to
\* a float or a fact_id that cannot be hashed, _parse_response returns a
\* triple for exactly the qualifying entries, in order; for any other reply
\* it returns no triple at all (an empty list, or it raises).  In every case a returned triple has a target in the batch
\* and a confidence above 0.3.
C32_QualifyingEntriesOfWellFormedReply ==
    parsed # NotParsed =>
        /\ ReplyWellFormed
              => parsed = [error |-> "none", relationships |-> QualifyingTriples]
        /\ ~ReplyWellFormed => parsed.relationships = <<>>
        /\ \A i \in DOMAIN parsed.relationships :
              /\ parsed.relationships[i].target_id \in BatchIds
              /\ parsed.relationships[i].type \in Types
              /\ parsed.relationships[i].confidence > Threshold

\* A fenced reply of two entries for facts of the batch: the one at exactly
\* 0.3 is dropped, the one written "Contradicts" is returned.
C32_Witness ==
    /\ parsed # NotParsed
    /\ response.open = FenceJson
    /\ Len(EntriesOf(response)) = 2
    /\ EntriesOf(response)[1].confidence = "0.3"
    /\ EntriesOf(response)[1].fact_id \in BatchIds
    /\ EntriesOf(response)[1].relationship = "supports"
    /\ EntriesOf(response)[2].relationship = "Contradicts"
    /\ parsed.relationships =
          <<Triple(EntriesOf(response)[2].fact_id, "contradicts", 4)>>

\* ---- C33
RECURSIVE Concat(_)
Concat(lists) ==
    IF lists = <<>> THEN <<>> ELSE Head(lists) \o Concat(Tail(lists))

ChunksSoFar == [k \in DOMAIN requests |-> requests[k].batch]

ResultsSoFar == [k \in DOMAIN requests |-> requests[k].result]

\* C33: detect_relationships issues its requests for consecutive chunks of
\* existing_facts, in order, each of at least one and at most
\* max_facts_per_request facts, so that when it returns every existing fact
\* has been in exactly one chunk; the list it builds is the concatenation of
\* the requests' results in that order, where a failed request contributes
\* nothing and a request that succeeded contributes what its reply parses to;
\* with no existing facts it issues no request and returns an empty list.
C33_ChunksAndConcatenation ==
    /\ \A k \in DOMAIN requests :
          /\ requests[k].batch # <<>>
          /\ Len(requests[k].batch) <= max_facts_per_request
          /\ requests[k].failed => requests[k].result = <<>>
          /\ ~requests[k].failed =>
                requests[k].result =
                    ParseResponse(requests[k].reply, requests[k].batch).relationships
    /\ Len(Concat(ChunksSoFar)) <= Len(existing)
    /\ Concat(ChunksSoFar) = SubSeq(existing, 1, Len(Concat(ChunksSoFar)))
    /\ detected = Concat(ResultsSoFar)
    /\ detectPc = "returned" => Concat(ChunksSoFar) = existing
    /\ existing = <<>> => requests = <<>> /\ detected = <<>>

\* Three facts in chunks of two: the first request failed, the second, for
\* the one remaining fact, succeeded, and its triple is what is returned.
C33_Witness ==
    /\ detectPc = "returned"
    /\ Len(existing) = 3
    /\ max_facts_per_request = 2
    /\ Len(requests) = 2
    /\ requests[1].failed
    /\ Len(requests[1].batch) = 2
    /\ requests[2].batch = <<existing[3]>>
    /\ detected = <<Triple(existing[3].id, "supports", 4)>>

\* ---- C34
\* C34: with the in-memory backend the writes of a detection round are one
\* step with the detector's return and task_done(): the worker is never
\* suspended between two writes of a round, so in every state, which is all
\* a caller's read or write can meet, a round has written either nothing or
\* every triple the detector returned, and the round's writes are
\* consecutive in the write history with no manual write among them.
C34_RoundWritesAtomic ==
    /\ [](backend = "memory" =>
            /\ workerPc # "write"
            /\ todo = <<>>
            /\ \A i \in DOMAIN rounds :
                  WritesOfRound(i) = IF rounds[i].outcome = "returned"
                                     THEN WritesAskedFor(i) ELSE <<>>)
    /\ [][(backend = "memory" /\ WorkerWriteStep) =>
            /\ rounds'[Len(rounds)].outcome = "returned"
            /\ writes' = writes \o WorkerWrites(Len(rounds), InFlight.fact.id,
                                       rounds'[Len(rounds)].result)
            /\ relationships' =
                  ApplyTriples(backend, facts, relationships, InFlight.fact.id,
                               rounds'[Len(rounds)].result)
            /\ dones' = dones + 1
            /\ workerPc' = "idle"]_vars

\* A round of two triples with the in-memory backend: both edges are stored
\* and counted, and the worker is back at the queue.
C34_Witness ==
    /\ backend = "memory"
    /\ rounds # <<>>
    /\ rounds[Len(rounds)].outcome = "returned"
    /\ Len(rounds[Len(rounds)].result) = 2
    /\ rounds[Len(rounds)].result[1].target_id
          # rounds[Len(rounds)].result[2].target_id
    /\ Len(WritesOfRound(Len(rounds))) = 2
    /\ GetNetworkStats(backend, facts, relationships).total_relationships = 2
    /\ workerPc = "idle"

\* ---- C35
\* Some add_fact call can be made that the storage accepts.
AddFactCompletes ==
    ENABLED (\E fid \in FactIds, in \in FactInputs :
                AddFact(fid, in[1], in[2]) /\ facts' # facts)

\* The step in which close() is called.
CloseStep == closePc = "not called" /\ closePc' # "not called"

\* A step that marks nothing done and lets no wait_for_processing() return
\* while something is outstanding.
NothingDoneStep ==
    /\ dones' = dones
    /\ unfinished' >= unfinished
    /\ (unfinished > 0 /\ wait.pc = "waiting") => wait'.pc = "waiting"
    /\ (unfinished > 0 /\ nWaits' = nWaits + 1) => wait'.pc = "waiting"

\* What C35 says of the call of close() and of add_fact after close() has
\* returned: the call of close() takes nothing off the queue and marks
\* nothing done; an add_fact that returns after close() has stored its fact
\* and, with a detector, put it on the queue; a call under way resumes, and
\* a call can be made that the storage accepts.
CloseDrainsNothing ==
    /\ [][CloseStep =>
            /\ unfinished' = unfinished /\ dones' = dones /\ queue' = queue
            /\ (InRound \/ queue # <<>>) => unfinished' > 0]_vars
    /\ [][(closed /\ AddFactReturnsStep) =>
            /\ lastAdded' # NoFact
            /\ GetFact(backend, facts', lastAdded'.id) = lastAdded'
            /\ DetectorConfigured(detector) =>
                  /\ unfinished' = unfinished + 1
                  /\ queue' = Append(queue, lastAdded')]_vars
    /\ []((closed /\ adding # {}) => ENABLED AddFactReturn)
    /\ []((closed /\ nAdds < MaxAdds) => AddFactCompletes)

\* close() has returned, or it was called and no detector call can catch the
\* cancellation.
CloseTookEffect ==
    closed \/ (closePc # "not called" /\ ~DetectorMayCatchCancel(detector))

\* C35 as stated: close() neither marks the abandoned item done nor drains
\* the queue, so from a close() called with a fact in flight or pending, or
\* an add_fact (with a detector) after close(), the outstanding count stays
\* above zero and a later wait_for_processing() never returns; and add_fact
\* after close() still stores the fact and returns, whatever the backend.
C35_AddFactWorksAfterClose ==
    /\ CloseDrainsNothing
    /\ [][closePc # "not called" => NothingDoneStep]_vars

\* C35 amended: the same from the moment close() has returned, or from its
\* call when no detector call can catch the cancellation (a detector call
\* that catches it lets the worker go on and mark items done).
C35_HangsAfterClose ==
    /\ CloseDrainsNothing
    /\ [][CloseTookEffect => NothingDoneStep]_vars

\* close() came while one fact was in flight; with the Neo4j backend a
\* second fact is then stored and queued, two items are outstanding, and
\* wait_for_processing() is suspended.
C35_Witness ==
    /\ closed
    /\ backend = "neo4j"
    /\ Len(rounds) = 1
    /\ rounds[1].outcome = "cancelled"
    /\ Len(queue) = 1
    /\ queue[1] = lastAdded
    /\ GetFact(backend, facts, lastAdded.id) = lastAdded
    /\ unfinished = 2
    /\ dones = 0
    /\ wait.pc = "waiting"

\* ---- C36
StoredFactIds == {facts[i].id : i \in DOMAIN facts}

\* The edges the claim has add_fact write for the detected triples: those
\* whose target is a stored fact, in the detector's order.
EdgesKept(source, result) ==
    LET kept == SelectSeq(result, LAMBDA t : t.target_id \in StoredFactIds')
    IN  [i \in DOMAIN kept |->
            Relationship(source, kept[i].target_id, kept[i].type,
                         kept[i].confidence, "{}")]

\* C36: in the synchronous KnowledgeNetwork every stored relationship has
\* both endpoints among the stored facts; add_relationship with a missing
\* source or target raises ValueError and changes nothing, and raises only
\* then; add_fact's detection step appends an edge for exactly the detected
\* triples whose target is stored and drops the others; so
\* get_supporting_facts and get_contradicting_facts never fail on a lookup.
C36_NetworkEndpointsStored ==
    /\ [](\A i \in DOMAIN relationships :
            /\ relationships[i].source_id \in StoredFactIds
            /\ relationships[i].target_id \in StoredFactIds)
    /\ [](\A fid \in FactIds \cup {UnknownId} :
            /\ NetGetSupportingFacts(facts, relationships, fid).error = "none"
            /\ NetGetContradictingFacts(facts, relationships, fid).error = "none")
    /\ [][lastCall'.op = "add_relationship" =>
            /\ (lastCall'.error = "ValueError") <=>
                  (lastCall'.source \notin StoredFactIds
                   \/ lastCall'.target \notin StoredFactIds)
            /\ lastCall'.error = "ValueError" =>
                  facts' = facts /\ relationships' = relationships
            /\ lastCall'.error = "none" =>
                  Len(relationships') = Len(relationships) + 1]_vars
    /\ [][(lastCall'.op = "add_fact" /\ lastCall'.error = "none") =>
            relationships' =
                relationships \o EdgesKept(lastCall'.source, lastCall'.result)]_vars

\* With a detector set, two facts and one supporting edge stored, an
\* add_relationship to an id that is not stored has just raised: the edge
\* list is as it was and the read of the edge's target gives its source.
C36_Witness ==
    /\ lastCall.op = "add_relationship"
    /\ lastCall.error = "ValueError"
    /\ lastCall.source \in StoredFactIds
    /\ lastCall.target = UnknownId
    /\ relationship_detector = "arbitrary"
    /\ Len(facts) = 2
    /\ Len(relationships) = 1
    /\ relationships[1].type = "supports"
    /\ NetGetSupportingFacts(facts, relationships, relationships[1].target_id)
          = [error |-> "none",
             facts |-> <<InMemoryGetFact(facts, relationships[1].source_id)>>]

====
